---- MODULE Spec2Model ----
(***************************************************************************)
(* A model of the publish side of the news-app content pipeline: the       *)
(* photo-platform publishers (container creation followed by the           *)
(* media_publish retry loop), the batch endpoints that publish a list of   *)
(* posts one after the other, and the endpoints that fan a post out to     *)
(* several platforms and aggregate the outcomes.                           *)
(***************************************************************************)
EXTENDS Integers, Sequences, FiniteSets, TLC

VARIABLES
    variant,    \* which publisher runs: "photo", "reel" or "simple"
    pc,         \* the publisher's position: idle/start/predelay/publish/backoff/done
    post,       \* the publisher's argument: [fields |-> BOOLEAN]
    creds,      \* INSTAGRAM_ACCESS_TOKEN and INSTAGRAM_USER_ID are both set
    attempts,   \* the retry loop's counter `attempts`
    publishResponse, \* "undefined", "ok" or "notok": the loop's last response
    waitTime,   \* the backoff computed for the pending sleep
    trace,      \* the requests issued and sleeps taken by the current call
    outcome,    \* the value the publisher returned
    endpoint,   \* which route handler runs
    rpc,        \* the route handler's position
    body,       \* the route's request body
    index,      \* the batch loop's position in body.posts (1-based)
    results,    \* the batch loop's `results`
    log,        \* the publish calls and sleeps of the route, in order
    xcreds,     \* the four X_* credentials are all set
    newsData,   \* the parsed answer of /api/fetch-news
    instagramResponse, \* the answer of /api/post-instagram
    xResponse,  \* the answer of /api/post-x
    response,   \* the route's HTTP response
    backend,    \* which dedup store runs: "redis", "file", or a quiz store
    store,      \* the value kept under the store's key (or in its file)
    lastOp,     \* the store operation that ran last, with its result
    prevOp,     \* the store operation before that
    startStore, \* the stored value the running pass found when it began
    qpc,        \* the quiz pass's position
    usedQuizzes,   \* the quiz pass's `usedQuizzes`
    quizContent,   \* the hash of `quizContent`, "undefined" before the first
    isUnique,      \* the quiz pass's `isUnique`
    quizAttempts,  \* the uniqueness loop's `attempts`
    retryCount,    \* the upload loop's `retryCount`
    genRetryCount, \* generateQuizContent's `retryCount`
    uploadSuccess, \* the upload loop's `uploadSuccess`
    qresult,    \* what the quiz pass returned, or the error it threw
    qlog,       \* the external calls of the quiz pass, in order
    npc,        \* per news pass: its position in GET of fetch-news
    passStore,  \* per news pass: the stored value when the pass began
    feedPosts,  \* per news pass: `posts`, the joined feed items
    usedHeadlines,     \* per news pass: `usedHeadlines`
    uniquePosts,       \* per news pass: `uniquePosts`, shuffled in place
    qualityPosts,      \* per news pass: `qualityPosts`
    selectedPosts,     \* per news pass: `selectedPosts`
    cursor,            \* per news pass: the loop's place in selectedPosts
    processedHeadlines, \* per news pass: `processedHeadlines`
    validPostPayloads, \* per news pass: `validPostPayloads`
    existingHeadlines, \* per news pass: the append's `existingHeadlines`
    nresponse,  \* per news pass: the answer of the GET
    nlog,       \* per news pass: its external calls, in order
    returned,   \* the feed headlines some finished pass returned a post of
    healthy,    \* the backing store answers every get and setex
    postsPromises, \* per news pass and feed: pending, or the items it gave
    payloadPromises, \* per news pass and selected item: how far its callback is
    capInput,   \* the text a caption is made of
    capSent,    \* the caption made of it
    now,        \* the days gone by since the store was first looked at
    expiresAt,  \* the day the store's key expires
    storedAt,   \* per fingerprint: the day it entered the stored list, or -1
    pending     \* per caller of the store: the append it has under way

pubVars == <<variant, pc, post, creds, attempts, publishResponse, waitTime,
             trace, outcome>>
routeVars == <<endpoint, rpc, body, index, results, log, xcreds, newsData,
               instagramResponse, xResponse, response>>
storeVars == <<backend, store, lastOp, prevOp>>
quizVars == <<qpc, usedQuizzes, quizContent, isUnique, quizAttempts,
              retryCount, genRetryCount, uploadSuccess, qresult, qlog>>
sideVars == <<now, expiresAt, storedAt, pending>>
promiseVars == <<postsPromises, payloadPromises>>
auxVars == <<promiseVars, capInput, capSent, sideVars>>
passVars == <<npc, passStore, feedPosts, usedHeadlines, uniquePosts, qualityPosts,
              selectedPosts, cursor, processedHeadlines, validPostPayloads,
              existingHeadlines, nresponse, nlog, returned, healthy>>
newsVars == <<passVars, auxVars>>
dedupVars == <<backend, store, lastOp, prevOp, startStore, quizVars, newsVars>>
vars == <<pubVars, routeVars, dedupVars>>

----------------------------------------------------------------------------
(* Program constants *)

maxAttempts == 5
PreDelayMs == 3000
BackoffStepMs == 5000
BackoffCapMs == 30000
CodeMediaNotReady == 9007
CodeInvalidParameter == 100
InterPostDelayMs == 10000
UniqueAttempts == 3
maxRetries == 3
UploadRetryStepMs == 1000
GenerationRetries == 3
QualityLimit == 20

(* Bounds of the model *)

\* No call is followed past this many media_publish requests.
MaxRequests == 7
\* The longest posts array a batch request carries.
MaxPosts == 2

Min(a, b) == IF a < b THEN a ELSE b

----------------------------------------------------------------------------
(* What the platform can answer *)

\* An HTTP exchange as the publisher sees it.  kind: "ok" (2xx), "err"
\* (any other status) or "throws" (fetch rejects).  For "ok", parses/hasId
\* describe the JSON body and its id field; for "err", parses/hasError/code
\* describe the error body { error: { code } }.  status is response.status,
\* which the platform chooses whatever the body is.
Resp(kind, parses, hasError, code, hasId) ==
    [kind |-> kind, parses |-> parses, hasError |-> hasError, code |-> code,
     hasId |-> hasId,
     status |-> IF kind = "ok" THEN 200 ELSE IF kind = "err" THEN 400 ELSE 0]

NoResp == Resp("none", FALSE, FALSE, 0, FALSE)

OkResponses ==
    { Resp("ok", TRUE, FALSE, 0, TRUE),      \* { id: "..." }
      Resp("ok", TRUE, FALSE, 0, FALSE),     \* a body without id
      Resp("ok", FALSE, FALSE, 0, FALSE) }   \* a body that is not JSON

ErrResponses ==
    { Resp("err", FALSE, FALSE, 0, FALSE),                   \* not JSON
      Resp("err", TRUE, FALSE, 0, FALSE),                    \* no error field
      Resp("err", TRUE, TRUE, CodeMediaNotReady, FALSE),
      Resp("err", TRUE, TRUE, CodeInvalidParameter, FALSE),
      Resp("err", TRUE, TRUE, 190, FALSE) }                  \* some other code

ThrowResponses == { Resp("throws", FALSE, FALSE, 0, FALSE) }

CreateResponses == OkResponses \cup ThrowResponses
                   \cup { Resp("err", FALSE, FALSE, 0, FALSE) }

PublishResponses == OkResponses \cup ErrResponses \cup ThrowResponses

\* The statuses of the answers that are not ok.
ErrStatuses == {400, 429, 500}

\* The answer r given with status s.
WithStatus(r, s) == [r EXCEPT !.status = s]

\* The answers as the single-post routes see them: these routes hand the
\* platform's status on, the publisher of the library never reads it.
PlatformResponses ==
    OkResponses \cup ThrowResponses
    \cup { WithStatus(r, s) : r \in ErrResponses, s \in ErrStatuses }

----------------------------------------------------------------------------
(* The publisher's return values *)

Outcome(success, error, stated, hasId) ==
    [success |-> success, error |-> error, stated |-> stated, hasId |-> hasId]

NoOutcome == Outcome(FALSE, "none", 0, FALSE)

Failure(error) == Outcome(FALSE, error, 0, FALSE)

\* "Failed to publish ... after ${maxAttempts} attempts: ..."
PublishFailure(v) ==
    IF v = "simple" THEN Failure("publish_failed")
    ELSE Outcome(FALSE, "publish_failed", maxAttempts, FALSE)

\* { success: true, message, post_id: publishData.id }
Published(r) == Outcome(TRUE, "", 0, r.hasId)

(* Events of the trace *)

Ev(e, n, r) == [e |-> e, n |-> n, r |-> r]
EvCreate(r) == Ev("create", 1, r)
EvPublish(n, r) == Ev("publish", n, r)
EvSleep(ms) == Ev("sleep", ms, NoResp)

Count(s, e) == Cardinality({i \in 1..Len(s) : s[i].e = e})

----------------------------------------------------------------------------
(* The publisher: postToInstagram (src/lib/instagram.ts, the retrying        *)
(* "photo" variant), postReelToInstagram (the "reel" variant, whose error    *)
(* body parse is not guarded) and the batch route's own postToInstagram (the *)
(* "simple" variant, which publishes once).                                  *)

\* Mutant: the missing-id check after container creation is forgotten.
CreateFailureOfNoIdCheck(r) ==
    IF r.kind = "throws" THEN "internal"
    ELSE IF r.kind # "ok" THEN "create_failed"
    ELSE IF ~r.parses THEN "internal"
    ELSE ""

\* createMediaResponse.ok, a JSON body, and mediaData.id present
CreateFailureOf(r) ==
    IF r.kind = "throws" THEN "internal"
    ELSE IF r.kind # "ok" THEN "create_failed"
    ELSE IF ~r.parses THEN "internal"
    ELSE IF ~r.hasId THEN "no_media_id"
    ELSE ""

\* Mutant: the loop condition is off by one.
LoopContinuesOffByOne(a) == a <= maxAttempts

\* while (attempts < maxAttempts)
LoopContinues(a) == a < maxAttempts

\* Mutant: every structured error is taken for "media not ready".
IsMediaNotReadyAnyCode(r) == r.hasError

\* errorObj.error && (errorObj.error.code === 9007 || errorObj.error.code === 100)
IsMediaNotReady(r) ==
    r.hasError /\ (r.code = CodeMediaNotReady \/ r.code = CodeInvalidParameter)

\* Mutant: the counter is not advanced.
NextAttemptsStuck(a) == a

\* attempts++
NextAttempts(a) == a + 1

\* Mutant: the publisher sleeps after every "media not ready" answer.
NeedsBackoffAlways(a) == a <= maxAttempts

\* if (attempts < maxAttempts) { ... await delay(waitTime) }
NeedsBackoff(a) == a < maxAttempts

\* Mutant: a flat backoff.
WaitTimeOfFlat(a) == Min(BackoffStepMs, BackoffCapMs)

\* Math.min(5000 * attempts, 30000)
WaitTimeOf(a) == Min(BackoffStepMs * a, BackoffCapMs)

\* What follows the loop: the failure return, or publishResponse.json()
AfterLoop(v, r) ==
    IF r.kind # "ok" THEN PublishFailure(v)
    ELSE IF ~r.parses THEN Failure("internal")
    ELSE Published(r)

\* One pass through the loop body with response r, up to the next await.
\* Returns the next position, the counter, the pending wait and the outcome.
Step(p, a, w, o) == [pc |-> p, attempts |-> a, waitTime |-> w, outcome |-> o]

PublishStep(v, a, r) ==
    IF r.kind = "throws" THEN Step("done", a, 0, Failure("internal"))
    ELSE IF r.kind = "ok" \/ v = "simple" THEN Step("done", a, 0, AfterLoop(v, r))
    ELSE IF ~r.parses
        THEN IF v = "reel"
             THEN Step("done", a, 0, Failure("internal"))
             ELSE Step("done", a, 0, AfterLoop(v, r))
    ELSE IF IsMediaNotReady(r)
        THEN IF NeedsBackoff(NextAttempts(a))
             THEN Step("backoff", NextAttempts(a), WaitTimeOf(NextAttempts(a)), NoOutcome)
             ELSE IF LoopContinues(NextAttempts(a))
                  THEN Step("publish", NextAttempts(a), 0, NoOutcome)
                  ELSE Step("done", NextAttempts(a), 0, AfterLoop(v, r))
    ELSE Step("done", a, 0, AfterLoop(v, r))

\* Field and credential checks, then the container request and its answer.
CreateContainer ==
    /\ pc = "start"
    /\ \E r \in CreateResponses :
        IF ~post.fields
        THEN /\ outcome' = Failure("missing_fields")
             /\ pc' = "done"
             /\ trace' = trace
        ELSE IF ~creds
        THEN /\ outcome' = Failure("no_credentials")
             /\ pc' = "done"
             /\ trace' = trace
        ELSE /\ trace' = Append(trace, EvCreate(r))
             /\ IF CreateFailureOf(r) # ""
                THEN /\ outcome' = Failure(CreateFailureOf(r))
                     /\ pc' = "done"
                ELSE /\ outcome' = outcome
                     /\ pc' = IF variant = "photo" THEN "predelay" ELSE "publish"
    /\ UNCHANGED <<variant, post, creds, attempts, publishResponse, waitTime>>
    /\ UNCHANGED routeVars
    /\ UNCHANGED dedupVars

\* await delay(3000)
PreDelay ==
    /\ pc = "predelay"
    /\ trace' = Append(trace, EvSleep(PreDelayMs))
    /\ pc' = "publish"
    /\ UNCHANGED <<variant, post, creds, attempts, publishResponse, waitTime, outcome>>
    /\ UNCHANGED routeVars
    /\ UNCHANGED dedupVars

\* One media_publish request and the handling of its answer.
PublishAttempt ==
    /\ pc = "publish"
    /\ Count(trace, "publish") < MaxRequests
    /\ \E r \in PublishResponses :
        LET s == PublishStep(variant, attempts, r) IN
        /\ trace' = Append(trace, EvPublish(Count(trace, "publish") + 1, r))
        /\ publishResponse' = IF r.kind = "ok" THEN "ok"
                              ELSE IF r.kind = "throws" THEN publishResponse
                              ELSE "notok"
        /\ pc' = s.pc
        /\ attempts' = s.attempts
        /\ waitTime' = s.waitTime
        /\ outcome' = s.outcome
    /\ UNCHANGED <<variant, post, creds>>
    /\ UNCHANGED routeVars
    /\ UNCHANGED dedupVars

\* await delay(waitTime), then the loop condition
Backoff ==
    /\ pc = "backoff"
    /\ trace' = Append(trace, EvSleep(waitTime))
    /\ waitTime' = 0
    /\ IF LoopContinues(attempts)
       THEN /\ pc' = "publish"
            /\ outcome' = outcome
       ELSE /\ pc' = "done"
            /\ outcome' = PublishFailure(variant)
    /\ UNCHANGED <<variant, post, creds, attempts, publishResponse>>
    /\ UNCHANGED routeVars
    /\ UNCHANGED dedupVars

Publisher == CreateContainer \/ PreDelay \/ PublishAttempt \/ Backoff

----------------------------------------------------------------------------
(* HTTP values of the route handlers *)

\* A JSON body: success, an optional results array, an error text, an id.
Json(success, hasResults, rs, error, hasId) ==
    [success |-> success, hasResults |-> hasResults, results |-> rs,
     error |-> error, hasId |-> hasId]

NoJson == Json(FALSE, FALSE, <<>>, "none", FALSE)

\* One fetch seen from the caller: it threw, or it returned status and body.
Http(status, json) == [threw |-> FALSE, status |-> status, json |-> json]
Threw == [threw |-> TRUE, status |-> 0, json |-> NoJson]
NoHttp == [threw |-> FALSE, status |-> 0, json |-> NoJson]

\* Response.ok
IsOk(h) == ~h.threw /\ h.status >= 200 /\ h.status <= 299

\* A request body: JSON or not; the fields the handlers read.
Body(kind, success, posts, image_url, caption) ==
    [kind |-> kind, success |-> success, posts |-> posts,
     image_url |-> image_url, caption |-> caption]

NoBody == Body("none", FALSE, <<>>, FALSE, FALSE)

\* What a handler answers: status, success, whether the body carries outcome
\* lists, the lists, and the error text.
Response(status, success, aggregate, rs, xs, error) ==
    [status |-> status, success |-> success, aggregate |-> aggregate,
     results |-> rs, xResults |-> xs, error |-> error]

NoResponse == Response(0, FALSE, FALSE, <<>>, <<>>, "none")

\* Mutant: the failure answer says nothing.
ErrorResponseBare(status, error) == Response(status, FALSE, FALSE, <<>>, <<>>, "")

\* { success: false, error }, { status }
ErrorResponse(status, error) == Response(status, FALSE, FALSE, <<>>, <<>>, error)

\* An element of an outcome list: the publisher's outcome for post n.
Result(n, o) ==
    [n |-> n, success |-> o.success, error |-> o.error, stated |-> o.stated,
     hasId |-> o.hasId]

\* createMediaResponse.status, publishResponse.status, tweetResponse.status
StatusOf(r) == r.status

----------------------------------------------------------------------------
(* The dedup store: one value kept under a Redis key (used_headlines for    *)
(* the news pass, used_go_quizzes and its siblings for the quiz passes) or, *)
(* in the file generation of the news route, in used_headlines.json.        *)

\* The fingerprints the model stores: headlines, or quiz hashes.
Fingerprints == {"h1", "h2"}

\* The longest list one append is given.
MaxAdd == 2

\* A stored value: kind "absent" (no key, no file), "array" (a JSON list of
\* strings), "string" (a JSON string, kept as its characters) or "other" (a
\* JSON object, number, boolean or null).
Stored(kind, items) == [kind |-> kind, items |-> items]
Absent == Stored("absent", <<>>)
NonList == Stored("other", <<>>)
List(items) == Stored("array", items)
StoredString(chars) == Stored("string", chars)

\* The used_*_quizzes keys of the Go, JavaScript and Python quiz passes.
QuizStores == {"quiz", "jsquiz", "pyquiz"}

\* 7 * 24 * 60 * 60 seconds, in days
HeadlineRetention == 7

\* 30 * 24 * 60 * 60 seconds, in days
QuizRetention == 30

\* The time to live setex is given.
Retention(b) == IF b \in QuizStores THEN QuizRetention ELSE HeadlineRetention

\* Array.prototype.includes
Includes(arr, x) == \E i \in 1..Len(arr) : arr[i] = x

\* Mutant: the list is written as it is, repeats included.
UniqueKeepingRepeats(arr) == arr

\* [...new Set(arr)]: the first occurrence of every element, in order
RECURSIVE Unique(_)
Unique(arr) ==
    IF arr = <<>> THEN <<>>
    ELSE LET front == Unique(SubSeq(arr, 1, Len(arr) - 1))
             last == arr[Len(arr)]
         IN  IF Includes(front, last) THEN front ELSE Append(front, last)

\* What a read hands to its caller: a list, or (file generation only) the
\* parsed value that is no list; threw says the read ended in an exception.
ReadList(items) ==
    [isArray |-> TRUE, isString |-> FALSE, items |-> items, threw |-> FALSE]
ReadString(chars) ==
    [isArray |-> FALSE, isString |-> TRUE, items |-> chars, threw |-> FALSE]
ReadNonList ==
    [isArray |-> FALSE, isString |-> FALSE, items |-> <<>>, threw |-> FALSE]
ReadThrew ==
    [isArray |-> FALSE, isString |-> FALSE, items |-> <<>>, threw |-> TRUE]

\* Mutant: the read ignores what is stored.
readUsedHeadlinesAsEmpty(value, getThrows) == ReadList(<<>>)

\* Mutant: the read has no try/catch and does not test for a list.
readUsedHeadlinesUnguarded(value, getThrows) ==
    IF getThrows THEN ReadThrew
    ELSE IF value.kind = "other" THEN ReadNonList
    ELSE IF value.kind = "string" THEN ReadString(value.items)
    ELSE ReadList(value.items)

\* readUsedHeadlines of the Redis generation: redis.get in a try/catch
readUsedHeadlines(value, getThrows) ==
    IF getThrows THEN ReadList(<<>>)
    ELSE IF value.kind = "array" THEN ReadList(value.items)
    ELSE ReadList(<<>>)

\* readUsedQuizzes
readUsedQuizzes(value, getThrows) ==
    IF getThrows THEN ReadList(<<>>)
    ELSE IF value.kind = "array" THEN ReadList(value.items)
    ELSE ReadList(<<>>)

\* readUsedHeadlines of the file generation: a missing or unparsable file
\* reads as [], any parsed value is returned as it is
readUsedHeadlinesFile(value, readThrows) ==
    IF readThrows \/ value.kind = "absent" THEN ReadList(<<>>)
    ELSE IF value.kind = "array" THEN ReadList(value.items)
    ELSE IF value.kind = "string" THEN ReadString(value.items)
    ELSE ReadNonList

\* Mutant: the new fingerprints replace the stored ones.
updatedHeadlinesReplacing(existing, headlines) == Unique(headlines)

\* [...new Set([...existingHeadlines, ...headlines])]
updatedHeadlines(existing, headlines) == Unique(existing \o headlines)

\* [...new Set([...existing, quizHash])]
updatedQuizzes(existing, quizHash) == Unique(Append(existing, quizHash))

\* What one append did: the value it leaves, whether it wrote, and whether
\* it threw to its caller.
Appended(value, wrote, threw) == [store |-> value, wrote |-> wrote, threw |-> threw]

\* appendUsedHeadlines of the Redis generation: nothing to append returns at
\* once; read, merge, setex; any error is logged and swallowed
appendUsedHeadlines(value, headlines, getThrows, setexThrows) ==
    IF Len(headlines) = 0 THEN Appended(value, FALSE, FALSE)
    ELSE IF setexThrows THEN Appended(value, FALSE, FALSE)
    ELSE Appended(List(updatedHeadlines(readUsedHeadlines(value, getThrows).items,
                                        headlines)), TRUE, FALSE)

\* appendUsedQuiz: read, merge, setex; any error is logged and swallowed
appendUsedQuiz(value, quizHash, getThrows, setexThrows) ==
    IF setexThrows THEN Appended(value, FALSE, FALSE)
    ELSE Appended(List(updatedQuizzes(readUsedQuizzes(value, getThrows).items,
                                      quizHash)), TRUE, FALSE)

\* [...existingHeadlines] of a list or of a string, which spreads into its
\* characters; any other value is not iterable
Spreads(existing) == existing.isArray \/ existing.isString

\* appendUsedHeadlines of the file generation: no test for an empty list and
\* no try/catch, so spreading a value that is not iterable, or a failing
\* writeFile, throws to the caller
appendUsedHeadlinesFile(value, headlines, readThrows, writeThrows) ==
    LET existing == readUsedHeadlinesFile(value, readThrows) IN
    IF ~Spreads(existing) \/ writeThrows THEN Appended(value, FALSE, TRUE)
    ELSE Appended(List(updatedHeadlines(existing.items, headlines)), TRUE, FALSE)

\* A store operation with its arguments, the faults it met and what it
\* returned.  before is the stored value the operation found.
Op(op, arg, getThrows, setThrows, before, read, threw, wrote) ==
    [op |-> op, arg |-> arg, getThrows |-> getThrows, setThrows |-> setThrows,
     before |-> before, read |-> read, threw |-> threw, wrote |-> wrote,
     found |-> before]

\* The append o as it ends: found is the stored value its write came upon.
Ended(o, setThrows, threw, wrote, found) ==
    [o EXCEPT !.setThrows = setThrows, !.threw = threw, !.wrote = wrote,
              !.found = found]

NoOp == Op("none", <<>>, FALSE, FALSE, Absent, ReadList(<<>>), FALSE, FALSE)

IdleStore ==
    /\ backend = "redis"
    /\ store = Absent
    /\ lastOp = NoOp
    /\ prevOp = NoOp

\* What a quiz pass returns: { success: true, imageUrl, quizData }, or the
\* error it throws, which the route answers as { success: false, error }.
QuizResult(success, error, hash) ==
    [success |-> success, error |-> error, hash |-> hash]
NoQuizResult == QuizResult(FALSE, "none", "undefined")

IdleQuiz ==
    /\ startStore = Absent
    /\ qpc = "idle"
    /\ usedQuizzes = <<>>
    /\ quizContent = "undefined"
    /\ isUnique = FALSE
    /\ quizAttempts = 0
    /\ retryCount = 0
    /\ genRetryCount = 0
    /\ uploadSuccess = FALSE
    /\ qresult = NoQuizResult
    /\ qlog = <<>>

\* The news passes that can be under way at once.
Slots == {1, 2}

\* The answer of GET /api/fetch-news: { success, posts | message | error }
NewsResponse(status, success, message, ps) ==
    [status |-> status, success |-> success, message |-> message, posts |-> ps]
NoNewsResponse == NewsResponse(0, FALSE, "none", <<>>)

\* A pass that is not running holds nothing.
\* No feed is being fetched and no caption is being made.
IdleAux ==
    /\ postsPromises = [p \in Slots |-> <<>>]
    /\ payloadPromises = [p \in Slots |-> <<>>]
    /\ capInput = [platform |-> "none"]
    /\ capSent = [limit |-> 0, over |-> FALSE, length |-> 0, keepsTail |-> TRUE]
    /\ now = 0
    /\ expiresAt = 0
    /\ storedAt = [f \in Fingerprints |-> -1]
    /\ pending = [c \in Slots |-> NoOp]

IdleNews ==
    /\ npc = [p \in Slots |-> "idle"]
    /\ passStore = [p \in Slots |-> Absent]
    /\ feedPosts = [p \in Slots |-> <<>>]
    /\ usedHeadlines = [p \in Slots |-> <<>>]
    /\ uniquePosts = [p \in Slots |-> <<>>]
    /\ qualityPosts = [p \in Slots |-> <<>>]
    /\ selectedPosts = [p \in Slots |-> <<>>]
    /\ cursor = [p \in Slots |-> 0]
    /\ processedHeadlines = [p \in Slots |-> {}]
    /\ validPostPayloads = [p \in Slots |-> <<>>]
    /\ existingHeadlines = [p \in Slots |-> <<>>]
    /\ nresponse = [p \in Slots |-> NoNewsResponse]
    /\ nlog = [p \in Slots |-> <<>>]
    /\ returned = {}
    /\ healthy = TRUE
    /\ IdleAux

IdleDedup == IdleStore /\ IdleQuiz /\ IdleNews

----------------------------------------------------------------------------
(* One publish call on its own, as the quiz routes make it. *)

IdleRoute ==
    /\ endpoint = "none"
    /\ rpc = "idle"
    /\ body = NoBody
    /\ index = 0
    /\ results = <<>>
    /\ log = <<>>
    /\ xcreds = FALSE
    /\ newsData = NoJson
    /\ instagramResponse = NoHttp
    /\ xResponse = NoHttp
    /\ response = NoResponse

InitPublish ==
    /\ variant \in {"photo", "reel", "simple"}
    /\ pc = "start"
    /\ post \in [fields : BOOLEAN]
    /\ creds \in BOOLEAN
    /\ attempts = 0
    /\ publishResponse = "undefined"
    /\ waitTime = 0
    /\ trace = <<>>
    /\ outcome = NoOutcome
    /\ IdleRoute
    /\ IdleDedup

NextPublish == Publisher

SpecPublish == InitPublish /\ [][NextPublish]_vars

\* Every await of the call returns: a call that can take a step takes it.
FairPublish == SpecPublish /\ WF_vars(NextPublish)

----------------------------------------------------------------------------
(* The batch routes: POST of src/unnamed/part_001 (photo posts, publisher    *)
(* "simple") and POST of post-instagram-reels (publisher "reel").  The body  *)
(* is a news answer { success, posts }; each post is "ok" (a payload with    *)
(* both fields), "nofields" (a payload lacking one), "missing" (no payload   *)
(* for this platform) or "null" (the JSON value null, which has no           *)
(* properties to read).                                                      *)

PostKinds == {"ok", "nofields", "missing", "null"}

RECURSIVE SeqsUpTo(_, _)
SeqsUpTo(S, n) ==
    IF n = 0 THEN {<<>>}
    ELSE LET shorter == SeqsUpTo(S, n - 1) IN
         shorter \cup {Append(q, x) : q \in {t \in shorter : Len(t) = n - 1}, x \in S}

BatchBodies ==
    { Body("badjson", FALSE, <<>>, FALSE, FALSE),
      Body("noposts", TRUE, <<>>, FALSE, FALSE) }
    \cup { Body("json", ok, ps, FALSE, FALSE) :
             ok \in BOOLEAN, ps \in SeqsUpTo(PostKinds, MaxPosts) }

\* results.every(result => result.success)
allSuccessful(rs) == \A i \in 1..Len(rs) : rs[i].success

\* results.push(result)
Collected(rs, n, o) == Append(rs, Result(n, o))

\* index < body.posts.length - 1, with the 0-based index of the code
DelayFollows(i, ps) == i - 1 < Len(ps) - 1

\* The publisher's variables as a fresh call finds them.
CallPublisher(fields) ==
    /\ pc' = "start"
    /\ post' = [fields |-> fields]
    /\ attempts' = 0
    /\ publishResponse' = "undefined"
    /\ waitTime' = 0
    /\ trace' = <<>>
    /\ outcome' = NoOutcome
    /\ UNCHANGED <<variant, creds>>

\* request.json() and the payload check
BatchValidate ==
    /\ endpoint \in {"batch", "reels"}
    /\ rpc = "start"
    /\ IF body.kind = "badjson"
       THEN /\ response' = ErrorResponse(500, "process")
            /\ rpc' = "done"
       ELSE IF ~body.success \/ body.kind = "noposts" \/ Len(body.posts) = 0
       THEN /\ response' = ErrorResponse(400, "invalid_payload")
            /\ rpc' = "done"
       ELSE /\ response' = response
            /\ rpc' = "loop"
    /\ index' = 1
    /\ UNCHANGED <<endpoint, body, results, log, xcreds, newsData,
                   instagramResponse, xResponse>>
    /\ UNCHANGED pubVars
    /\ UNCHANGED dedupVars

\* The head of one loop iteration: post.postPayload of a null post throws
\* into the catch of the route, which answers 500 without the results; a
\* post without payload is recorded as a failure and skipped; any other is
\* handed to the publisher.
BatchIterate ==
    /\ endpoint \in {"batch", "reels"}
    /\ rpc = "loop"
    /\ index <= Len(body.posts)
    /\ IF body.posts[index] = "null"
       THEN /\ response' = ErrorResponse(500, "process")
            /\ rpc' = "done"
            /\ UNCHANGED <<results, index, log>>
            /\ UNCHANGED pubVars
       ELSE IF body.posts[index] = "missing"
       THEN /\ results' = Collected(results, index, Failure("missing_payload"))
            /\ index' = index + 1
            /\ UNCHANGED <<rpc, log, response>>
            /\ UNCHANGED pubVars
       ELSE /\ CallPublisher(body.posts[index] = "ok")
            /\ log' = Append(log, Ev("call", index, NoResp))
            /\ rpc' = "call"
            /\ UNCHANGED <<results, index, response>>
    /\ UNCHANGED <<endpoint, body, xcreds, newsData, instagramResponse,
                   xResponse>>
    /\ UNCHANGED dedupVars

\* The publisher returned: results.push(result)
BatchCollect ==
    /\ endpoint \in {"batch", "reels"}
    /\ rpc = "call"
    /\ pc = "done"
    /\ results' = Collected(results, index, outcome)
    /\ pc' = "idle"
    /\ IF DelayFollows(index, body.posts)
       THEN /\ rpc' = "delay"
            /\ index' = index
       ELSE /\ rpc' = "loop"
            /\ index' = index + 1
    /\ UNCHANGED <<variant, post, creds, attempts, publishResponse, waitTime,
                   trace, outcome>>
    /\ UNCHANGED <<endpoint, body, log, xcreds, newsData, instagramResponse,
                   xResponse, response>>
    /\ UNCHANGED dedupVars

\* await delay(10000)
BatchDelay ==
    /\ endpoint \in {"batch", "reels"}
    /\ rpc = "delay"
    /\ log' = Append(log, EvSleep(InterPostDelayMs))
    /\ index' = index + 1
    /\ rpc' = "loop"
    /\ UNCHANGED <<endpoint, body, results, xcreds, newsData,
                   instagramResponse, xResponse, response>>
    /\ UNCHANGED pubVars
    /\ UNCHANGED dedupVars

\* { success: allSuccessful, results }, status allSuccessful ? 200 : 207
BatchRespond ==
    /\ endpoint \in {"batch", "reels"}
    /\ rpc = "loop"
    /\ index > Len(body.posts)
    /\ response' = Response(IF allSuccessful(results) THEN 200 ELSE 207,
                            allSuccessful(results), TRUE, results, <<>>, "")
    /\ rpc' = "done"
    /\ UNCHANGED <<endpoint, body, index, results, log, xcreds, newsData,
                   instagramResponse, xResponse>>
    /\ UNCHANGED pubVars
    /\ UNCHANGED dedupVars

Batch == BatchValidate \/ BatchIterate \/ BatchCollect \/ BatchDelay \/ BatchRespond

----------------------------------------------------------------------------
(* The single-post platform routes, as functions of the request body, the   *)
(* environment and the platform's answers.                                   *)

\* POST /api/post-instagram (src/app/api/post-instagram/route.ts): b is the
\* request body, c and p the platform's answers to the container and the
\* publish request.
PostInstagramRoute(b, cr, c, p) ==
    IF b.kind # "json" THEN Http(500, Json(FALSE, FALSE, <<>>, "internal", FALSE))
    ELSE IF ~b.image_url \/ ~b.caption
        THEN Http(400, Json(FALSE, FALSE, <<>>, "missing_fields", FALSE))
    ELSE IF ~cr THEN Http(500, Json(FALSE, FALSE, <<>>, "no_credentials", FALSE))
    ELSE IF c.kind = "throws" THEN Http(500, Json(FALSE, FALSE, <<>>, "internal", FALSE))
    ELSE IF c.kind # "ok"
        THEN Http(StatusOf(c), Json(FALSE, FALSE, <<>>, "create_failed", FALSE))
    ELSE IF ~c.parses THEN Http(500, Json(FALSE, FALSE, <<>>, "internal", FALSE))
    ELSE IF ~c.hasId THEN Http(500, Json(FALSE, FALSE, <<>>, "no_media_id", FALSE))
    ELSE IF p.kind = "throws" THEN Http(500, Json(FALSE, FALSE, <<>>, "internal", FALSE))
    ELSE IF p.kind # "ok"
        THEN Http(StatusOf(p), Json(FALSE, FALSE, <<>>, "publish_failed", FALSE))
    ELSE IF ~p.parses THEN Http(500, Json(FALSE, FALSE, <<>>, "internal", FALSE))
    ELSE Http(200, Json(TRUE, FALSE, <<>>, "", p.hasId))

\* POST /api/post-x (src/app/api/post-x/route.ts): img, up and tw are the
\* answers to the image download, the media upload and the tweet request.
PostXRoute(b, xc, img, up, tw) ==
    IF b.kind # "json" THEN Http(500, Json(FALSE, FALSE, <<>>, "internal", FALSE))
    ELSE IF ~b.image_url \/ ~b.caption
        THEN Http(400, Json(FALSE, FALSE, <<>>, "missing_fields", FALSE))
    ELSE IF ~xc THEN Http(500, Json(FALSE, FALSE, <<>>, "no_credentials", FALSE))
    ELSE IF img.kind # "ok" THEN Http(500, Json(FALSE, FALSE, <<>>, "internal", FALSE))
    ELSE IF up.kind = "throws" THEN Http(500, Json(FALSE, FALSE, <<>>, "internal", FALSE))
    ELSE IF up.kind # "ok"
        THEN Http(StatusOf(up), Json(FALSE, FALSE, <<>>, "upload_failed", FALSE))
    ELSE IF ~up.parses THEN Http(500, Json(FALSE, FALSE, <<>>, "internal", FALSE))
    ELSE IF ~up.hasId THEN Http(500, Json(FALSE, FALSE, <<>>, "no_media_id", FALSE))
    ELSE IF tw.kind = "throws" THEN Http(500, Json(FALSE, FALSE, <<>>, "internal", FALSE))
    ELSE IF tw.kind # "ok"
        THEN Http(StatusOf(tw), Json(FALSE, FALSE, <<>>, "tweet_failed", FALSE))
    ELSE IF ~tw.parses THEN Http(500, Json(FALSE, FALSE, <<>>, "internal", FALSE))
    ELSE IF ~tw.hasId THEN Http(500, Json(FALSE, FALSE, <<>>, "no_tweet_id", FALSE))
    ELSE Http(200, Json(TRUE, FALSE, <<>>, "", TRUE))

\* The image download answers 2xx, another status, or the fetch rejects.
ImageResponses == { Resp("ok", FALSE, FALSE, 0, FALSE),
                    Resp("err", FALSE, FALSE, 0, FALSE) } \cup ThrowResponses

\* The answers fetch(/api/post-instagram) can give for request body b.
InstagramExchanges(b) ==
    {Threw} \cup { PostInstagramRoute(b, creds, c, p) :
                     c \in PlatformResponses,
                     p \in PlatformResponses }

\* The answers fetch(/api/post-x) can give for request body b.
XExchanges(b) ==
    {Threw} \cup { PostXRoute(b, xcreds, img, up, tw) :
                     img \in ImageResponses, up \in PlatformResponses,
                     tw \in PlatformResponses }

----------------------------------------------------------------------------
(* POST of src/unnamed/part_002: one post to both platforms. *)

SocialBodies ==
    { Body("badjson", FALSE, <<>>, FALSE, FALSE) }
    \cup { Body("json", FALSE, <<>>, i, c) : i \in BOOLEAN, c \in BOOLEAN }

\* results.instagram / results.x after one platform call
PlatformResult(h, n) ==
    IF h.threw THEN Result(n, Failure("request_failed"))
    ELSE IF IsOk(h) THEN Result(n, Outcome(h.json.success, h.json.error, 0, h.json.hasId))
    ELSE Result(n, Failure("api_error"))

\* results.instagram?.success || results.x?.success
hasAnySuccess(ig, x) == ig.success \/ x.success

\* The body check, then the call to /api/post-instagram
SocialPostInstagram ==
    /\ endpoint = "social"
    /\ rpc = "start"
    /\ IF body.kind # "json"
       THEN /\ response' = ErrorResponse(500, "internal")
            /\ rpc' = "done"
            /\ instagramResponse' = instagramResponse
       ELSE IF ~body.image_url \/ ~body.caption
       THEN /\ response' = ErrorResponse(400, "missing_fields")
            /\ rpc' = "done"
            /\ instagramResponse' = instagramResponse
       ELSE /\ \E h \in InstagramExchanges(body) : instagramResponse' = h
            /\ rpc' = "x"
            /\ response' = response
    /\ UNCHANGED <<endpoint, body, index, results, log, xcreds, newsData, xResponse>>
    /\ UNCHANGED pubVars
    /\ UNCHANGED dedupVars

\* The call to /api/post-x, then the overall success and the answer
SocialPostX ==
    /\ endpoint = "social"
    /\ rpc = "x"
    /\ \E h \in XExchanges(body) :
        LET ig == PlatformResult(instagramResponse, 1)
            x == PlatformResult(h, 1)
        IN /\ xResponse' = h
           /\ response' = Response(200, hasAnySuccess(ig, x), TRUE, <<ig>>, <<x>>, "")
    /\ rpc' = "done"
    /\ UNCHANGED <<endpoint, body, index, results, log, xcreds, newsData,
                   instagramResponse>>
    /\ UNCHANGED pubVars
    /\ UNCHANGED dedupVars

Social == SocialPostInstagram \/ SocialPostX

----------------------------------------------------------------------------
(* GET of fetch-and-post-all and GET of src/unnamed/part_003: fetch the      *)
(* news, then hand the whole news answer to the platform routes.             *)

\* What fetch(/api/fetch-news) can give: a rejection, an error status, or a
\* 2xx answer { success, posts } with posts of the given length.
NewsPosts(n) == [i \in 1..n |-> "ok"]

NewsExchanges ==
    { Threw, Http(500, Json(FALSE, FALSE, <<>>, "internal", FALSE)),
      Http(200, Json(FALSE, FALSE, <<>>, "no_news", FALSE)),
      Http(200, Json(TRUE, FALSE, <<>>, "", FALSE)) }
    \cup { Http(200, Json(TRUE, TRUE, NewsPosts(n), "", FALSE)) : n \in 0..MaxPosts }

\* JSON.stringify(newsData): the body sent to the platform routes
NewsBody(nd) == Body("json", nd.success, nd.results, FALSE, FALSE)

\* instagramData / xData: the parsed answer, or { success: false, error }
PlatformData(h) ==
    IF IsOk(h) THEN h.json
    ELSE Json(FALSE, FALSE, <<>>, h.json.error, FALSE)

\* data.success && (data.results ? data.results.every(r => r.success) : false)
platformSuccess(d) ==
    d.success /\ (IF d.hasResults THEN allSuccessful(d.results) ELSE FALSE)

\* data.results || []
ResultsOrEmpty(d) == IF d.hasResults THEN d.results ELSE <<>>

\* Step 1 of both handlers
FetchNews ==
    /\ endpoint \in {"all", "combined"}
    /\ rpc = "start"
    /\ \E h \in NewsExchanges :
        IF ~IsOk(h)
        THEN /\ response' = ErrorResponse(500, "internal")
             /\ rpc' = "done"
             /\ newsData' = newsData
        ELSE IF ~h.json.success
        THEN /\ response' = ErrorResponse(400, "news_failed")
             /\ rpc' = "done"
             /\ newsData' = h.json
        ELSE IF ~h.json.hasResults \/ Len(h.json.results) = 0
        THEN /\ response' = ErrorResponse(400, "no_posts")
             /\ rpc' = "done"
             /\ newsData' = h.json
        ELSE /\ newsData' = h.json
             /\ rpc' = "instagram"
             /\ response' = response
    /\ UNCHANGED <<endpoint, body, index, results, log, xcreds,
                   instagramResponse, xResponse>>
    /\ UNCHANGED pubVars
    /\ UNCHANGED dedupVars

\* fetch-and-post-all, step 2
AllPostInstagram ==
    /\ endpoint = "all"
    /\ rpc = "instagram"
    /\ \E h \in InstagramExchanges(NewsBody(newsData)) :
        /\ instagramResponse' = h
        /\ IF h.threw
           THEN /\ response' = ErrorResponse(500, "internal")
                /\ rpc' = "done"
           ELSE /\ response' = response
                /\ rpc' = "x"
    /\ UNCHANGED <<endpoint, body, index, results, log, xcreds, newsData, xResponse>>
    /\ UNCHANGED pubVars
    /\ UNCHANGED dedupVars

\* fetch-and-post-all, step 3 and the overall answer
AllPostX ==
    /\ endpoint = "all"
    /\ rpc = "x"
    /\ \E h \in XExchanges(NewsBody(newsData)) :
        /\ xResponse' = h
        /\ IF h.threw
           THEN response' = ErrorResponse(500, "internal")
           ELSE LET instagramData == PlatformData(instagramResponse)
                    xData == PlatformData(h)
                    ok == platformSuccess(instagramData) /\ platformSuccess(xData)
                IN response' = Response(IF ok THEN 200 ELSE 207, ok, TRUE,
                                        ResultsOrEmpty(instagramData),
                                        ResultsOrEmpty(xData), "")
    /\ rpc' = "done"
    /\ UNCHANGED <<endpoint, body, index, results, log, xcreds, newsData,
                   instagramResponse>>
    /\ UNCHANGED pubVars
    /\ UNCHANGED dedupVars

\* part_003, step 2 and the overall answer
CombinedPostInstagram ==
    /\ endpoint = "combined"
    /\ rpc = "instagram"
    /\ \E h \in InstagramExchanges(NewsBody(newsData)) :
        /\ instagramResponse' = h
        /\ IF h.threw
           THEN response' = ErrorResponse(500, "internal")
           ELSE IF ~IsOk(h)
           THEN response' = ErrorResponse(h.status, "instagram_failed")
           ELSE IF ~h.json.success /\ ~h.json.hasResults
           THEN response' = ErrorResponse(400, "instagram_failed")
           ELSE IF ~h.json.hasResults
           THEN response' = ErrorResponse(500, "internal")
           ELSE response' = Response(IF allSuccessful(h.json.results) THEN 200 ELSE 207,
                                     allSuccessful(h.json.results), TRUE,
                                     h.json.results, <<>>, "")
    /\ rpc' = "done"
    /\ UNCHANGED <<endpoint, body, index, results, log, xcreds, newsData, xResponse>>
    /\ UNCHANGED pubVars
    /\ UNCHANGED dedupVars

FanOut == FetchNews \/ AllPostInstagram \/ AllPostX \/ CombinedPostInstagram

----------------------------------------------------------------------------
(* The route handlers together *)

RouteBodies(e) ==
    IF e \in {"batch", "reels"} THEN BatchBodies
    ELSE IF e = "social" THEN SocialBodies
    ELSE {NoBody}

InitRoutes ==
    /\ endpoint \in {"batch", "reels", "social", "all", "combined"}
    /\ variant = (IF endpoint = "reels" THEN "reel" ELSE "simple")
    /\ rpc = "start"
    /\ body \in RouteBodies(endpoint)
    /\ creds \in BOOLEAN
    /\ xcreds \in BOOLEAN
    /\ pc = "idle"
    /\ post = [fields |-> FALSE]
    /\ attempts = 0
    /\ publishResponse = "undefined"
    /\ waitTime = 0
    /\ trace = <<>>
    /\ outcome = NoOutcome
    /\ index = 0
    /\ results = <<>>
    /\ log = <<>>
    /\ newsData = NoJson
    /\ instagramResponse = NoHttp
    /\ xResponse = NoHttp
    /\ response = NoResponse
    /\ IdleDedup

\* The batch publishers take no pre-publish delay.
RoutePublisher == CreateContainer \/ PublishAttempt \/ Backoff

NextRoutes == RoutePublisher \/ Batch \/ Social \/ FanOut

SpecRoutes == InitRoutes /\ [][NextRoutes]_vars

----------------------------------------------------------------------------
(* The store operations on their own: reads and appends applied one after   *)
(* the other to a store of any generation, each with the faults the backing *)
(* store can show (a get or a set that throws).                             *)

\* The lists an append is given.
AddLists(b) ==
    IF b \in QuizStores THEN { <<f>> : f \in Fingerprints }
    ELSE SeqsUpTo(Fingerprints, MaxAdd)

\* The values a store holds when an operation finds it: nothing, a list
\* without repeats as the appends write it, or a value that is no list.
NoRepeats(arr) ==
    \A i, j \in 1..Len(arr) : arr[i] = arr[j] => i = j

StoredValues ==
    {Absent, NonList, StoredString(<<>>), StoredString(<<"h", "1">>)}
    \cup { List(l) : l \in {q \in SeqsUpTo(Fingerprints, Cardinality(Fingerprints)) :
                               NoRepeats(q)} }

ReadOf(b, value, getThrows) ==
    IF b = "redis" THEN readUsedHeadlines(value, getThrows)
    ELSE IF b \in QuizStores THEN readUsedQuizzes(value, getThrows)
    ELSE readUsedHeadlinesFile(value, getThrows)

AppendOf(b, value, arg, getThrows, setThrows) ==
    IF b = "redis" THEN appendUsedHeadlines(value, arg, getThrows, setThrows)
    ELSE IF b \in QuizStores THEN appendUsedQuiz(value, arg[1], getThrows, setThrows)
    ELSE appendUsedHeadlinesFile(value, arg, getThrows, setThrows)

InitStore ==
    /\ backend \in {"redis", "quiz", "file"}
    /\ store \in StoredValues
    /\ lastOp = NoOp
    /\ prevOp = NoOp
    /\ IdleQuiz
    /\ IdleNews
    /\ variant = "simple"
    /\ pc = "idle"
    /\ post = [fields |-> FALSE]
    /\ creds = FALSE
    /\ attempts = 0
    /\ publishResponse = "undefined"
    /\ waitTime = 0
    /\ trace = <<>>
    /\ outcome = NoOutcome
    /\ IdleRoute

\* The call a caller of the store has made and ended.
Done == Op("done", <<>>, FALSE, FALSE, Absent, ReadList(<<>>), FALSE, FALSE)

\* What the read of an append handed on, as a stored value: a read that
\* failed hands on the empty list.
SeenBy(o) == IF o.getThrows THEN Absent ELSE o.before

\* Each caller of the store makes one call: a read, or an append, which is
\* a read and, after it, a write.  The calls of the callers interleave.

\* One read of the store.
StoreRead(c) ==
    /\ pending[c] = NoOp
    /\ \E getThrows \in BOOLEAN :
          lastOp' = Op("read", <<>>, getThrows, FALSE, store,
                       ReadOf(backend, store, getThrows),
                       ReadOf(backend, store, getThrows).threw, FALSE)
    /\ prevOp' = lastOp
    /\ pending' = [pending EXCEPT ![c] = Done]
    /\ UNCHANGED <<backend, store, startStore, now, expiresAt, storedAt>>
    /\ UNCHANGED quizVars
    /\ UNCHANGED <<passVars, promiseVars, capInput, capSent>>
    /\ UNCHANGED pubVars
    /\ UNCHANGED routeVars

\* An append, first half: const existing = await read().  An append that
\* will not come to its write (nothing to append, or a value that does not
\* spread) ends here.
StoreAppendRead(c, lists) ==
    /\ pending[c] = NoOp
    /\ \E arg \in lists, getThrows \in BOOLEAN :
          LET o == Op("append", arg, getThrows, FALSE, store,
                      ReadOf(backend, store, getThrows), FALSE, FALSE)
              r == AppendOf(backend, store, arg, getThrows, FALSE)
          IN  IF r.wrote
              THEN /\ pending' = [pending EXCEPT ![c] = o]
                   /\ UNCHANGED <<lastOp, prevOp>>
              ELSE /\ pending' = [pending EXCEPT ![c] = Done]
                   /\ lastOp' = Ended(o, FALSE, r.threw, FALSE, store)
                   /\ prevOp' = lastOp
    /\ UNCHANGED <<backend, store, startStore, now, expiresAt, storedAt>>
    /\ UNCHANGED quizVars
    /\ UNCHANGED <<passVars, promiseVars, capInput, capSent>>
    /\ UNCHANGED pubVars
    /\ UNCHANGED routeVars

\* redis.setex(key, seconds, list): the day the key expires once the call
\* has returned; a call that threw, and a write of the file, set none.
ExpiryAfter(wrote) ==
    IF wrote /\ backend # "file" THEN now + Retention(backend) ELSE expiresAt

\* The day each fingerprint entered the stored list, once written has
\* replaced the list.
EnteredAfter(wrote, written) ==
    [g \in Fingerprints |->
        IF ~wrote THEN storedAt[g]
        ELSE IF ~Includes(written, g) THEN -1
        ELSE IF store.kind = "array" /\ Includes(store.items, g) THEN storedAt[g]
        ELSE now]

\* An append, second half: what was read, merged with the new fingerprints,
\* is written over whatever the store holds by now; redis.setex gives the
\* key a new time to live.
StoreAppendWrite(c) ==
    /\ pending[c].op = "append"
    /\ \E setThrows \in BOOLEAN :
          LET o == pending[c]
              r == AppendOf(backend, SeenBy(o), o.arg, FALSE, setThrows)
          IN  /\ store' = IF r.wrote THEN r.store ELSE store
              /\ lastOp' = Ended(o, setThrows, r.threw, r.wrote, store)
              /\ expiresAt' = ExpiryAfter(r.wrote)
              /\ storedAt' = EnteredAfter(r.wrote, r.store.items)
    /\ prevOp' = lastOp
    /\ pending' = [pending EXCEPT ![c] = Done]
    /\ UNCHANGED <<backend, startStore, now>>
    /\ UNCHANGED quizVars
    /\ UNCHANGED <<passVars, promiseVars, capInput, capSent>>
    /\ UNCHANGED pubVars
    /\ UNCHANGED routeVars

NextStore ==
    \E c \in Slots :
        \/ StoreRead(c)
        \/ StoreAppendRead(c, AddLists(backend))
        \/ StoreAppendWrite(c)

SpecStore == InitStore /\ [][NextStore]_vars

----------------------------------------------------------------------------
(* The quiz pass: generateGoQuizLogic (src/app/lib/go-quiz.ts) and its      *)
(* JavaScript and Python siblings.  A quiz is identified by the hash of its *)
(* code.                                                                    *)

IdlePublisher ==
    /\ variant = "simple"
    /\ pc = "idle"
    /\ post = [fields |-> FALSE]
    /\ creds = FALSE
    /\ attempts = 0
    /\ publishResponse = "undefined"
    /\ waitTime = 0
    /\ trace = <<>>
    /\ outcome = NoOutcome

InitQuiz ==
    /\ backend \in QuizStores
    /\ store \in StoredValues
    /\ startStore = store
    /\ lastOp = NoOp
    /\ prevOp = NoOp
    /\ qpc = "read"
    /\ usedQuizzes = <<>>
    /\ quizContent = "undefined"
    /\ isUnique = FALSE
    /\ quizAttempts = 0
    /\ retryCount = 0
    /\ genRetryCount = 0
    /\ uploadSuccess = FALSE
    /\ qresult = NoQuizResult
    /\ qlog = <<>>
    /\ IdleNews
    /\ IdlePublisher
    /\ IdleRoute

\* while (!isUnique && attempts < 3)
UniqueLoopContinues(unique, a) == ~unique /\ a < UniqueAttempts

\* Mutant: the loop takes one turn more.
UploadLoopContinuesOnceMore(done, n) == ~done /\ n <= maxRetries

\* while (!uploadSuccess && retryCount < maxRetries)
UploadLoopContinues(done, n) == ~done /\ n < maxRetries

\* The pass ends by throwing: the route answers { success: false, error }.
QuizThrows(error) ==
    /\ qresult' = QuizResult(FALSE, error, quizContent)
    /\ qpc' = "done"

\* const usedQuizzes = await readUsedQuizzes()
QuizRead ==
    /\ qpc = "read"
    /\ \E getThrows \in BOOLEAN :
          /\ usedQuizzes' = readUsedQuizzes(store, getThrows).items
          /\ lastOp' = Op("read", <<>>, getThrows, FALSE, store,
                          readUsedQuizzes(store, getThrows),
                          readUsedQuizzes(store, getThrows).threw, FALSE)
    /\ prevOp' = lastOp
    /\ qlog' = Append(qlog, Ev("get", 0, NoResp))
    /\ qpc' = "generate"
    /\ UNCHANGED <<backend, store, startStore, quizContent, isUnique,
                   quizAttempts, retryCount, genRetryCount, uploadSuccess,
                   qresult>>
    /\ UNCHANGED newsVars
    /\ UNCHANGED pubVars
    /\ UNCHANGED routeVars

\* if (retryCount < 3) return generateQuizContent(retryCount + 1)
RetriesGeneration(n) == n < GenerationRetries

\* What one call of the model gives generateQuizContent: the call rejects,
\* or its text does not parse, or parses to a value without code (null, or
\* an object whose code is missing), or to a quiz with code whose options or
\* answer are not as asked, or to a quiz as asked.  hash is the hash of the
\* code.
QuizAnswer(kind, hash) == [kind |-> kind, hash |-> hash]

QuizAnswers ==
    { QuizAnswer(k, "undefined") : k \in {"rejects", "unparsable", "nocode"} }
    \cup { QuizAnswer(k, h) : k \in {"invalid", "valid"}, h \in Fingerprints }

\* The try block of generateQuizContent throws: always when the call rejects
\* or JSON.parse throws; the Go pass also validates code, options and
\* answer, the JavaScript and Python passes return whatever parsed.
GenerationFails(b, a) ==
    \/ a.kind \in {"rejects", "unparsable"}
    \/ b = "quiz" /\ a.kind \in {"nocode", "invalid"}

\* One call of the model in generateQuizContent, inside one turn of the
\* uniqueness loop.  When the try block throws, the function calls itself
\* again, or throws.  A returned value without code makes
\* Buffer.from(quizContent.code) throw out of the pass.  Else the quiz is
\* either new or counted as a repeat.
QuizGenerate ==
    /\ qpc = "generate"
    /\ qlog' = Append(qlog, Ev("generate", genRetryCount + 1, NoResp))
    /\ \E a \in QuizAnswers :
          IF GenerationFails(backend, a)
          THEN /\ IF RetriesGeneration(genRetryCount)
                  THEN /\ genRetryCount' = genRetryCount + 1
                       /\ UNCHANGED <<qpc, qresult>>
                  ELSE /\ genRetryCount' = 0
                       /\ QuizThrows("generate_failed")
               /\ UNCHANGED <<quizContent, isUnique, quizAttempts>>
          ELSE IF a.kind = "nocode"
          THEN /\ genRetryCount' = 0
               /\ QuizThrows("internal")
               /\ UNCHANGED <<quizContent, isUnique, quizAttempts>>
          ELSE /\ quizContent' = a.hash
               /\ genRetryCount' = 0
               /\ qresult' = qresult
               /\ IF ~Includes(usedQuizzes, a.hash)
                  THEN /\ isUnique' = TRUE
                       /\ quizAttempts' = quizAttempts
                       /\ qpc' = "append"
                  ELSE /\ isUnique' = isUnique
                       /\ quizAttempts' = quizAttempts + 1
                       /\ qpc' = IF UniqueLoopContinues(isUnique, quizAttempts + 1)
                                THEN "generate" ELSE "render"
    /\ UNCHANGED <<backend, store, lastOp, prevOp, startStore, usedQuizzes,
                   retryCount, uploadSuccess>>
    /\ UNCHANGED newsVars
    /\ UNCHANGED pubVars
    /\ UNCHANGED routeVars

\* await appendUsedQuiz(hash), first half: const existing = await
\* readUsedQuizzes()
QuizAppendRead ==
    /\ qpc = "append"
    /\ \E getThrows \in BOOLEAN :
          pending' = [pending EXCEPT ![1] =
              Op("append", <<quizContent>>, getThrows, FALSE, store,
                 readUsedQuizzes(store, getThrows), FALSE, FALSE)]
    /\ qlog' = Append(qlog, Ev("get", 0, NoResp))
    /\ qpc' = "write"
    /\ UNCHANGED <<backend, store, lastOp, prevOp, startStore, usedQuizzes,
                   quizContent, isUnique, quizAttempts, retryCount,
                   genRetryCount, uploadSuccess, qresult>>
    /\ UNCHANGED <<passVars, promiseVars, capInput, capSent, now, expiresAt,
                   storedAt>>
    /\ UNCHANGED pubVars
    /\ UNCHANGED routeVars

\* appendUsedQuiz, second half: redis.setex is called with the merged list;
\* an error of it is logged and swallowed.  This ends the loop.
QuizAppendWrite ==
    /\ qpc = "write"
    /\ \E setThrows \in BOOLEAN :
          LET o == pending[1]
              r == appendUsedQuiz(SeenBy(o), quizContent, FALSE, setThrows)
          IN  /\ store' = IF r.wrote THEN r.store ELSE store
              /\ lastOp' = Ended(o, setThrows, r.threw, r.wrote, store)
              /\ qlog' = Append(qlog, Ev("setex", IF r.wrote THEN 1 ELSE 0, NoResp))
              /\ expiresAt' = ExpiryAfter(r.wrote)
              /\ storedAt' = EnteredAfter(r.wrote, r.store.items)
    /\ prevOp' = lastOp
    /\ pending' = [pending EXCEPT ![1] = NoOp]
    /\ qpc' = "render"
    /\ UNCHANGED <<backend, startStore, usedQuizzes, quizContent, isUnique,
                   quizAttempts, retryCount, genRetryCount, uploadSuccess,
                   qresult>>
    /\ UNCHANGED <<passVars, promiseVars, capInput, capSent, now>>
    /\ UNCHANGED pubVars
    /\ UNCHANGED routeVars

\* const imageBuffer = await generateQuizImage(quizContent)
QuizRender ==
    /\ qpc = "render"
    /\ qlog' = Append(qlog, Ev("render", 0, NoResp))
    /\ \/ /\ QuizThrows("render_failed")
       \/ /\ qpc' = "upload"
          /\ qresult' = qresult
    /\ UNCHANGED <<backend, store, lastOp, prevOp, startStore, usedQuizzes,
                   quizContent, isUnique, quizAttempts, retryCount,
                   genRetryCount, uploadSuccess>>
    /\ UNCHANGED newsVars
    /\ UNCHANGED pubVars
    /\ UNCHANGED routeVars

\* One turn of the upload loop: the wait before a retry, the upload, and
\* on its success the return of the pass.
QuizUpload ==
    /\ qpc = "upload"
    /\ UploadLoopContinues(uploadSuccess, retryCount)
    /\ \E uploaded \in BOOLEAN :
          /\ qlog' = qlog
                \o (IF retryCount > 0
                    THEN <<EvSleep(UploadRetryStepMs * retryCount)>> ELSE <<>>)
                \o <<Ev("upload", retryCount + 1, NoResp)>>
          /\ IF uploaded
             THEN /\ uploadSuccess' = TRUE
                  /\ retryCount' = retryCount
                  /\ qresult' = QuizResult(TRUE, "", quizContent)
                  /\ qpc' = "done"
             ELSE /\ uploadSuccess' = FALSE
                  /\ retryCount' = retryCount + 1
                  /\ IF UploadLoopContinues(FALSE, retryCount + 1)
                     THEN /\ qpc' = "upload"
                          /\ qresult' = qresult
                     ELSE QuizThrows("upload_failed")
    /\ UNCHANGED <<backend, store, lastOp, prevOp, startStore, usedQuizzes,
                   quizContent, isUnique, quizAttempts, genRetryCount>>
    /\ UNCHANGED newsVars
    /\ UNCHANGED pubVars
    /\ UNCHANGED routeVars

NextQuiz ==
    \/ QuizRead
    \/ QuizGenerate
    \/ QuizAppendRead
    \/ QuizAppendWrite
    \/ QuizRender
    \/ QuizUpload

SpecQuiz == InitQuiz /\ [][NextQuiz]_vars

----------------------------------------------------------------------------
(* The news pass: GET of fetch-news in its Redis generation (lines 604-766  *)
(* of src/app/api/fetch-news/route.ts).  A feed item is known by its        *)
(* headline and by whether it passes the quality pre-filter; an item of the *)
(* model's answer by the headline it echoes as originalHeadline, the feed   *)
(* item it was made from, and whether its imageUrl is a usable URL.         *)

\* The longest joined feed list, and the longest answer of the model.
MaxCandidates == 2
MaxSelected == 2

\* The most candidates the selection on its own is offered.
MaxOffered == 4

\* "Select 1-3 of the most engaging and relevant posts"
MaxCount == 3

\* { headline, description, imageUrl, link }
Candidate(headline, quality) == [headline |-> headline, quality |-> quality]

Candidates == { Candidate(h, q) : h \in Fingerprints, q \in BOOLEAN }

FeedLists == SeqsUpTo(Candidates, MaxCandidates)

\* Mutant: the filter keeps the used candidates and drops the new ones.
FilterUnusedInverted(ps, used) ==
    SelectSeq(ps, LAMBDA c : Includes(used, c.headline))

\* posts.filter((post) => !usedHeadlines.includes(post.headline))
RECURSIVE FilterUnused(_, _)
FilterUnused(ps, used) ==
    IF ps = <<>> THEN <<>>
    ELSE IF Includes(used, Head(ps).headline) THEN FilterUnused(Tail(ps), used)
    ELSE <<Head(ps)>> \o FilterUnused(Tail(ps), used)

\* Mutant: the pass goes on with nothing to select from.
NoNewContentIgnored(unique) == FALSE

\* if (uniquePosts.length === 0) return the 404 answer
NoNewContent(unique) == Len(unique) = 0

\* uniquePosts.sort(() => Math.random() - 0.5): any order of the same items
Shuffles(ps) ==
    { [i \in 1..Len(ps) |-> ps[f[i]]] : f \in Permutations(1..Len(ps)) }

\* .filter(post => post.imageUrl && post.description.length > 50).slice(0, 20)
QualityOf(ps) ==
    LET q == SelectSeq(ps, LAMBDA c : c.quality)
    IN  SubSeq(q, 1, Min(Len(q), QualityLimit))

\* The headline the model echoes when it does not echo the feed's.
Altered == "hx"

\* { originalHeadline, newHeadline, description, imageUrl, link }
Item(originalHeadline, from, image) ==
    [originalHeadline |-> originalHeadline, from |-> from, image |-> image,
     shape |-> "item"]

\* An element of the answer that has no description to split.
Undescribed(originalHeadline, from) ==
    [originalHeadline |-> originalHeadline, from |-> from, image |-> "valid",
     shape |-> "nodescription"]

\* An element of the answer that is null, of which nothing can be read.
NullItem ==
    [originalHeadline |-> "undefined", from |-> "undefined", image |-> "invalid",
     shape |-> "null"]

\* What the model can make of the candidates it is sent.
ItemsFor(q) ==
    {NullItem}
    \cup UNION { { Item(o, q[i].headline, img) :
                     o \in {q[i].headline, Altered}, img \in {"valid", "invalid"} }
                 \cup { Undescribed(q[i].headline, q[i].headline) } :
                 i \in 1..Len(q) }

\* const { newHeadline, description, ... } = post throws
DestructuringThrows(item) == item.shape = "null"

\* description.split(' ') throws
SplitThrows(item) == item.shape = "nodescription"

\* The answers that pick some of the candidates, each at most once, in the
\* order they were sent.
RECURSIVE PicksOf(_)
PicksOf(q) ==
    IF q = <<>> THEN {<<>>}
    ELSE LET rest == PicksOf(Tail(q))
         IN  rest \cup { <<it>> \o r : it \in ItemsFor(<<Head(q)>>), r \in rest }

SelectionsFor(q) == SeqsUpTo(ItemsFor(q), MaxSelected) \cup PicksOf(q)

\* What model.generateContent(prompt) gives: it rejects, or it answers with
\* a text that is not JSON, that is JSON but no array, or that is an array.
ModelOutput(kind, items) == [kind |-> kind, items |-> items]

ModelOutputs(q) ==
    { ModelOutput(k, <<>>) : k \in {"rejects", "unparsable", "notarray"} }
    \cup { ModelOutput("array", sel) : sel \in SelectionsFor(q) }

\* callGemini: the parsed array as it is, or a throw.
callGemini(out) ==
    IF out.kind = "array" THEN [threw |-> FALSE, posts |-> out.items]
    ELSE [threw |-> TRUE, posts |-> <<>>]

\* generateInstagramImage returns the uploaded blob's URL, or, when fetching,
\* rendering or uploading threw, the placeholder URL; "nonhttps" stands for
\* a URL the check of line 705 refuses.
ImageOutcomes == {"uploaded", "placeholder", "nonhttps"}

\* imageUrl && isValidUrl(imageUrl), then
\* platformImages.instagram && platformImages.instagram.startsWith('https')
isValidImage(item, o) == item.image = "valid" /\ o \in {"uploaded", "placeholder"}

\* if (processedHeadlines.has(originalHeadline)) continue
AlreadyProcessed(seen, item) == item.originalHeadline \in seen

\* An entry of validPostPayloads.
Payload(originalHeadline, from, image) ==
    [originalHeadline |-> originalHeadline, from |-> from, image |-> image]

\* finalPostPayloads.map((post) => post.originalHeadline)
OriginalHeadlines(ps) == [i \in 1..Len(ps) |-> ps[i].originalHeadline]

\* The faults a get or a setex of the backing store can show.
StoreFaults == IF healthy THEN {FALSE} ELSE BOOLEAN

InitNews ==
    /\ backend = "redis"
    /\ store \in StoredValues
    /\ lastOp = NoOp
    /\ prevOp = NoOp
    /\ IdleQuiz
    /\ npc = [p \in Slots |-> "idle"]
    /\ passStore = [p \in Slots |-> Absent]
    /\ feedPosts = [p \in Slots |-> <<>>]
    /\ usedHeadlines = [p \in Slots |-> <<>>]
    /\ uniquePosts = [p \in Slots |-> <<>>]
    /\ qualityPosts = [p \in Slots |-> <<>>]
    /\ selectedPosts = [p \in Slots |-> <<>>]
    /\ cursor = [p \in Slots |-> 0]
    /\ processedHeadlines = [p \in Slots |-> {}]
    /\ validPostPayloads = [p \in Slots |-> <<>>]
    /\ existingHeadlines = [p \in Slots |-> <<>>]
    /\ nresponse = [p \in Slots |-> NoNewsResponse]
    /\ nlog = [p \in Slots |-> <<>>]
    /\ returned = {}
    /\ healthy \in BOOLEAN
    /\ IdlePublisher
    /\ IdleRoute
    /\ IdleAux

\* return NextResponse.json(...)
EndPass(p, r) ==
    /\ nresponse' = [nresponse EXCEPT ![p] = r]
    /\ npc' = [npc EXCEPT ![p] = "done"]

\* A request arrives and the feeds are fetched and joined.
NewsFetch(p) ==
    /\ npc[p] \in {"idle", "done"}
    /\ \E ps \in FeedLists : feedPosts' = [feedPosts EXCEPT ![p] = ps]
    /\ npc' = [npc EXCEPT ![p] = "read"]
    /\ passStore' = [passStore EXCEPT ![p] = store]
    /\ usedHeadlines' = [usedHeadlines EXCEPT ![p] = <<>>]
    /\ uniquePosts' = [uniquePosts EXCEPT ![p] = <<>>]
    /\ qualityPosts' = [qualityPosts EXCEPT ![p] = <<>>]
    /\ selectedPosts' = [selectedPosts EXCEPT ![p] = <<>>]
    /\ cursor' = [cursor EXCEPT ![p] = 0]
    /\ processedHeadlines' = [processedHeadlines EXCEPT ![p] = {}]
    /\ validPostPayloads' = [validPostPayloads EXCEPT ![p] = <<>>]
    /\ existingHeadlines' = [existingHeadlines EXCEPT ![p] = <<>>]
    /\ nresponse' = [nresponse EXCEPT ![p] = NoNewsResponse]
    /\ nlog' = [nlog EXCEPT ![p] = <<>>]
    /\ UNCHANGED <<returned, healthy, backend, store, lastOp, prevOp, startStore>>
    /\ UNCHANGED auxVars
    /\ UNCHANGED quizVars
    /\ UNCHANGED pubVars
    /\ UNCHANGED routeVars

\* The store is read and the feed items filtered; nothing left ends the
\* pass, else the rest is shuffled and pre-filtered for the model.
NewsRead(p) ==
    /\ npc[p] = "read"
    /\ nlog' = [nlog EXCEPT ![p] = Append(@, Ev("get", 0, NoResp))]
    /\ \E getThrows \in StoreFaults :
          LET used == readUsedHeadlines(store, getThrows).items
              unique == FilterUnused(feedPosts[p], used)
          IN  /\ usedHeadlines' = [usedHeadlines EXCEPT ![p] = used]
              /\ IF NoNewContent(unique)
                 THEN /\ uniquePosts' = [uniquePosts EXCEPT ![p] = unique]
                      /\ qualityPosts' = qualityPosts
                      /\ EndPass(p, NewsResponse(404, FALSE, "no_new_content", <<>>))
                 ELSE /\ \E shuffled \in Shuffles(unique) :
                            /\ uniquePosts' = [uniquePosts EXCEPT ![p] = shuffled]
                            /\ qualityPosts' =
                                 [qualityPosts EXCEPT ![p] = QualityOf(shuffled)]
                      /\ npc' = [npc EXCEPT ![p] = "select"]
                      /\ nresponse' = nresponse
    /\ UNCHANGED <<passStore, feedPosts, selectedPosts, cursor,
                   processedHeadlines, validPostPayloads, existingHeadlines,
                   returned, healthy>>
    /\ UNCHANGED <<backend, store, lastOp, prevOp, startStore>>
    /\ UNCHANGED auxVars
    /\ UNCHANGED quizVars
    /\ UNCHANGED pubVars
    /\ UNCHANGED routeVars

\* selectedPosts = await callGemini(qualityPosts): the call throws, or
\* returns a list, which must not be empty.  The feed items are read no
\* more after this call and are let go.
NewsSelect(p) ==
    /\ npc[p] = "select"
    /\ nlog' = [nlog EXCEPT ![p] = Append(@, Ev("select", 0, NoResp))]
    /\ \E out \in ModelOutputs(qualityPosts[p]) :
          LET r == callGemini(out) IN
          IF r.threw \/ Len(r.posts) = 0
          THEN /\ EndPass(p, NewsResponse(500, FALSE, "selection_failed", <<>>))
               /\ UNCHANGED <<selectedPosts, cursor>>
          ELSE /\ selectedPosts' = [selectedPosts EXCEPT ![p] = r.posts]
               /\ cursor' = [cursor EXCEPT ![p] = 1]
               /\ npc' = [npc EXCEPT ![p] = "process"]
               /\ nresponse' = nresponse
    /\ feedPosts' = [feedPosts EXCEPT ![p] = <<>>]
    /\ usedHeadlines' = [usedHeadlines EXCEPT ![p] = <<>>]
    /\ uniquePosts' = [uniquePosts EXCEPT ![p] = <<>>]
    /\ qualityPosts' = [qualityPosts EXCEPT ![p] = <<>>]
    /\ UNCHANGED <<passStore, processedHeadlines, validPostPayloads,
                   existingHeadlines, returned, healthy>>
    /\ UNCHANGED <<backend, store, lastOp, prevOp, startStore>>
    /\ UNCHANGED auxVars
    /\ UNCHANGED quizVars
    /\ UNCHANGED pubVars
    /\ UNCHANGED routeVars

\* One turn of the loop over selectedPosts: a headline seen before in this
\* answer is skipped; an item with a usable imageUrl is rendered and
\* uploaded, and kept if the image it got counts as valid.  An item that is
\* null, or one not seen before that has no description, throws out of the
\* loop into the catch of the GET, which answers 500 with the error.
NewsProcess(p) ==
    /\ npc[p] = "process"
    /\ cursor[p] <= Len(selectedPosts[p])
    /\ LET item == selectedPosts[p][cursor[p]] IN
       IF \/ DestructuringThrows(item)
          \/ ~AlreadyProcessed(processedHeadlines[p], item) /\ SplitThrows(item)
       THEN /\ EndPass(p, NewsResponse(500, FALSE, "internal", <<>>))
            /\ selectedPosts' = [selectedPosts EXCEPT ![p] = <<>>]
            /\ cursor' = [cursor EXCEPT ![p] = 0]
            /\ processedHeadlines' = [processedHeadlines EXCEPT ![p] = {}]
            /\ validPostPayloads' = [validPostPayloads EXCEPT ![p] = <<>>]
            /\ nlog' = nlog
       ELSE /\ IF AlreadyProcessed(processedHeadlines[p], item)
               THEN UNCHANGED <<processedHeadlines, validPostPayloads, nlog>>
               ELSE /\ processedHeadlines' =
                         [processedHeadlines EXCEPT ![p] = @ \cup {item.originalHeadline}]
                    /\ IF item.image = "valid"
                       THEN \E o \in ImageOutcomes :
                               /\ nlog' = [nlog EXCEPT ![p] = Append(@, Ev("render", 0, NoResp))]
                               /\ validPostPayloads' =
                                    IF isValidImage(item, o)
                                    THEN [validPostPayloads EXCEPT ![p] =
                                            Append(@, Payload(item.originalHeadline,
                                                              item.from, o))]
                                    ELSE validPostPayloads
                       ELSE UNCHANGED <<validPostPayloads, nlog>>
            /\ cursor' = [cursor EXCEPT ![p] = @ + 1]
            /\ UNCHANGED <<npc, selectedPosts, nresponse>>
    /\ UNCHANGED <<passStore, feedPosts, usedHeadlines, uniquePosts,
                   qualityPosts, existingHeadlines, returned, healthy>>
    /\ UNCHANGED <<backend, store, lastOp, prevOp, startStore>>
    /\ UNCHANGED auxVars
    /\ UNCHANGED quizVars
    /\ UNCHANGED pubVars
    /\ UNCHANGED routeVars

\* After the loop: no valid post ends the pass, else the append begins.
\* The model's answer is read no more.
NewsAfterLoop(p) ==
    /\ npc[p] = "process"
    /\ cursor[p] > Len(selectedPosts[p])
    /\ IF Len(validPostPayloads[p]) = 0
       THEN EndPass(p, NewsResponse(404, FALSE, "no_valid_images", <<>>))
       ELSE /\ npc' = [npc EXCEPT ![p] = "append"]
            /\ nresponse' = nresponse
    /\ selectedPosts' = [selectedPosts EXCEPT ![p] = <<>>]
    /\ cursor' = [cursor EXCEPT ![p] = 0]
    /\ processedHeadlines' = [processedHeadlines EXCEPT ![p] = {}]
    /\ UNCHANGED <<passStore, feedPosts, usedHeadlines, uniquePosts,
                   qualityPosts, validPostPayloads, existingHeadlines, nlog,
                   returned, healthy>>
    /\ UNCHANGED <<backend, store, lastOp, prevOp, startStore>>
    /\ UNCHANGED auxVars
    /\ UNCHANGED quizVars
    /\ UNCHANGED pubVars
    /\ UNCHANGED routeVars

\* appendUsedHeadlines, first half: existingHeadlines = await readUsedHeadlines()
NewsAppendRead(p) ==
    /\ npc[p] = "append"
    /\ \E getThrows \in StoreFaults :
          existingHeadlines' =
              [existingHeadlines EXCEPT ![p] = readUsedHeadlines(store, getThrows).items]
    /\ nlog' = [nlog EXCEPT ![p] = Append(@, Ev("get", 0, NoResp))]
    /\ npc' = [npc EXCEPT ![p] = "write"]
    /\ UNCHANGED <<passStore, feedPosts, usedHeadlines, uniquePosts,
                   qualityPosts, selectedPosts, cursor, processedHeadlines,
                   validPostPayloads, nresponse, returned, healthy>>
    /\ UNCHANGED <<backend, store, lastOp, prevOp, startStore>>
    /\ UNCHANGED auxVars
    /\ UNCHANGED quizVars
    /\ UNCHANGED pubVars
    /\ UNCHANGED routeVars

\* appendUsedHeadlines, second half: the merged list is written with a new
\* time to live of the key (an error is swallowed), and the pass answers
\* with its posts.
NewsAppendWrite(p) ==
    /\ npc[p] = "write"
    /\ \E setexThrows \in StoreFaults :
          LET written == updatedHeadlines(existingHeadlines[p],
                                         OriginalHeadlines(validPostPayloads[p]))
          IN  /\ store' = IF setexThrows THEN store ELSE List(written)
              /\ expiresAt' = ExpiryAfter(~setexThrows)
              /\ storedAt' = EnteredAfter(~setexThrows, written)
              /\ nlog' = [nlog EXCEPT ![p] =
                     Append(@, Ev("setex", IF setexThrows THEN 0 ELSE 1, NoResp))]
    /\ EndPass(p, NewsResponse(200, TRUE, "", validPostPayloads[p]))
    /\ returned' = returned \cup
          { validPostPayloads[p][i].from : i \in 1..Len(validPostPayloads[p]) }
    /\ validPostPayloads' = [validPostPayloads EXCEPT ![p] = <<>>]
    /\ existingHeadlines' = [existingHeadlines EXCEPT ![p] = <<>>]
    /\ UNCHANGED <<passStore, feedPosts, usedHeadlines, uniquePosts,
                   qualityPosts, selectedPosts, cursor, processedHeadlines,
                   healthy>>
    /\ UNCHANGED <<backend, lastOp, prevOp, startStore>>
    /\ UNCHANGED <<promiseVars, capInput, capSent, now, pending>>
    /\ UNCHANGED quizVars
    /\ UNCHANGED pubVars
    /\ UNCHANGED routeVars

\* The selection on its own: the pass stands at the call of callGemini with
\* up to MaxOffered candidates of different headlines, and runs to its end.
Title(i) == "h" \o ToString(i)

OfferedLists ==
    { SelectSeq([i \in 1..MaxOffered |-> Candidate(Title(i), TRUE)],
                LAMBDA c : c.headline \in S) :
        S \in SUBSET { Title(i) : i \in 1..MaxOffered } }

InitSelect ==
    /\ backend = "redis"
    /\ store = Absent
    /\ lastOp = NoOp
    /\ prevOp = NoOp
    /\ IdleQuiz
    /\ npc = [p \in Slots |-> IF p = 1 THEN "select" ELSE "idle"]
    /\ passStore = [p \in Slots |-> Absent]
    /\ feedPosts = [p \in Slots |-> <<>>]
    /\ usedHeadlines = [p \in Slots |-> <<>>]
    /\ \E q \in OfferedLists :
          /\ uniquePosts = [p \in Slots |-> IF p = 1 THEN q ELSE <<>>]
          /\ qualityPosts = [p \in Slots |-> IF p = 1 THEN q ELSE <<>>]
    /\ selectedPosts = [p \in Slots |-> <<>>]
    /\ cursor = [p \in Slots |-> 0]
    /\ processedHeadlines = [p \in Slots |-> {}]
    /\ validPostPayloads = [p \in Slots |-> <<>>]
    /\ existingHeadlines = [p \in Slots |-> <<>>]
    /\ nresponse = [p \in Slots |-> NoNewsResponse]
    /\ nlog = [p \in Slots |-> IF p = 1 THEN <<Ev("get", 0, NoResp)>> ELSE <<>>]
    /\ returned = {}
    /\ healthy = TRUE
    /\ IdlePublisher
    /\ IdleRoute
    /\ IdleAux

NextSelect ==
    \/ NewsSelect(1)
    \/ NewsProcess(1)
    \/ NewsAfterLoop(1)
    \/ NewsAppendRead(1)
    \/ NewsAppendWrite(1)

SpecSelect == InitSelect /\ [][NextSelect]_vars

\* The same stretch of the pass in the file generation of the route (lines
\* 1006-1086): the answer must have exactly 4 items, all of them are made
\* into posts at once, and all their headlines are appended to the file.
ExactCount == 4

\* The answers that fill the places asked for by going round a selection.
RoundsOf(q) ==
    { [i \in 1..ExactCount |-> sel[((i - 1) % Len(sel)) + 1]] :
        sel \in SelectionsFor(q) \ {<<>>} }

FileModelOutputs(q) ==
    ModelOutputs(q) \cup { ModelOutput("array", sel) : sel \in RoundsOf(q) }

\* callGemini of the file generation
callGeminiFile(out) ==
    IF out.kind = "array" /\ Len(out.items) = ExactCount
    THEN [threw |-> FALSE, posts |-> out.items]
    ELSE [threw |-> TRUE, posts |-> <<>>]

\* The image of a post whose item has an imageUrl: the generated URL if
\* generateInstagramImage returned it and the HEAD request to it answered
\* 2xx, and the placeholder if not.
imageOfFile(made, ok) == IF made /\ ok THEN "uploaded" ELSE "placeholder"

\* The characters of a headline of the model.
CharsOf(h) ==
    <<"h", CHOOSE d \in {ToString(i) : i \in 0..9} \cup {"x"} : h = "h" \o d>>

\* String.prototype.includes
IsSubstring(a, b) ==
    \E i \in 0..(Len(b) - Len(a)) : SubSeq(b, i + 1, i + Len(a)) = a

\* usedHeadlines.includes(post.headline), of a list or of a string
HasHeadline(read, h) ==
    IF read.isString THEN IsSubstring(CharsOf(h), read.items)
    ELSE Includes(read.items, h)

\* posts.filter((post) => !usedHeadlines.includes(post.headline))
FilterUnusedFile(ps, read) ==
    SelectSeq(ps, LAMBDA c : ~HasHeadline(read, c.headline))

\* The most posts the feeds give a pass of the file generation.
MaxFilePosts == 2

\* The posts of the feeds: up to MaxFilePosts posts of different headlines.
FilePosts ==
    { q \in OfferedLists :
        \A i \in 1..Len(q) : q[i].headline \in { Title(j) : j \in 1..MaxFilePosts } }

\* The values used_headlines.json holds when a pass finds it.
FileValues ==
    {Absent, NonList, List(<<>>), List(<<Altered>>), StoredString(<<"h", "1">>)}

InitFilePass ==
    /\ backend = "file"
    /\ store \in FileValues
    /\ lastOp = NoOp
    /\ prevOp = NoOp
    /\ IdleQuiz
    /\ npc = [p \in Slots |-> IF p = 1 THEN "read" ELSE "idle"]
    /\ passStore = [p \in Slots |-> IF p = 1 THEN store ELSE Absent]
    /\ \E q \in FilePosts :
          feedPosts = [p \in Slots |-> IF p = 1 THEN q ELSE <<>>]
    /\ usedHeadlines = [p \in Slots |-> <<>>]
    /\ uniquePosts = [p \in Slots |-> <<>>]
    /\ qualityPosts = [p \in Slots |-> <<>>]
    /\ selectedPosts = [p \in Slots |-> <<>>]
    /\ cursor = [p \in Slots |-> 0]
    /\ processedHeadlines = [p \in Slots |-> {}]
    /\ validPostPayloads = [p \in Slots |-> <<>>]
    /\ existingHeadlines = [p \in Slots |-> <<>>]
    /\ nresponse = [p \in Slots |-> NoNewsResponse]
    /\ nlog = [p \in Slots |-> <<>>]
    /\ returned = {}
    /\ healthy \in BOOLEAN
    /\ IdlePublisher
    /\ IdleRoute
    /\ IdleAux

\* const usedHeadlines = await readUsedHeadlines() and the filter: a parsed
\* value that is neither a list nor a string has no includes, so the filter
\* throws at its first post into the catch of the GET; nothing left ends
\* the pass with 404.
FilePassRead(p) ==
    /\ npc[p] = "read"
    /\ nlog' = [nlog EXCEPT ![p] = Append(@, Ev("get", 0, NoResp))]
    /\ \E readThrows \in StoreFaults :
          LET read == readUsedHeadlinesFile(store, readThrows) IN
          /\ usedHeadlines' = [usedHeadlines EXCEPT ![p] = read.items]
          /\ IF Len(feedPosts[p]) > 0 /\ ~Spreads(read)
             THEN /\ EndPass(p, NewsResponse(500, FALSE, "internal", <<>>))
                  /\ uniquePosts' = uniquePosts
             ELSE LET unique == FilterUnusedFile(feedPosts[p], read) IN
                  /\ uniquePosts' = [uniquePosts EXCEPT ![p] = unique]
                  /\ IF NoNewContent(unique)
                     THEN EndPass(p, NewsResponse(404, FALSE, "no_new_content", <<>>))
                     ELSE /\ npc' = [npc EXCEPT ![p] = "select"]
                          /\ nresponse' = nresponse
    /\ UNCHANGED <<passStore, feedPosts, qualityPosts, selectedPosts, cursor,
                   processedHeadlines, validPostPayloads, existingHeadlines,
                   returned, healthy>>
    /\ UNCHANGED <<backend, store, lastOp, prevOp, startStore>>
    /\ UNCHANGED auxVars
    /\ UNCHANGED quizVars
    /\ UNCHANGED pubVars
    /\ UNCHANGED routeVars

\* selectedPosts = await callGemini(uniquePosts)
FilePassSelect(p) ==
    /\ npc[p] = "select"
    /\ nlog' = [nlog EXCEPT ![p] = Append(@, Ev("select", 0, NoResp))]
    /\ \E out \in FileModelOutputs(uniquePosts[p]) :
          LET r == callGeminiFile(out) IN
          IF r.threw
          THEN /\ EndPass(p, NewsResponse(500, FALSE, "selection_failed", <<>>))
               /\ UNCHANGED selectedPosts
          ELSE /\ selectedPosts' = [selectedPosts EXCEPT ![p] = r.posts]
               /\ npc' = [npc EXCEPT ![p] = "process"]
               /\ nresponse' = nresponse
    /\ feedPosts' = [feedPosts EXCEPT ![p] = <<>>]
    /\ usedHeadlines' = [usedHeadlines EXCEPT ![p] = <<>>]
    /\ uniquePosts' = [uniquePosts EXCEPT ![p] = <<>>]
    /\ UNCHANGED <<passStore, qualityPosts, cursor,
                   processedHeadlines, validPostPayloads, existingHeadlines,
                   returned, healthy>>
    /\ UNCHANGED <<backend, store, lastOp, prevOp, startStore>>
    /\ UNCHANGED auxVars
    /\ UNCHANGED quizVars
    /\ UNCHANGED pubVars
    /\ UNCHANGED routeVars

\* The callback of one selected item: it threw, it waits for
\* generateInstagramImage ("rendering") or for the answer to its HEAD
\* request ("heading"), or it returned its post with the image it has.
Callback(state, image) == [state |-> state, image |-> image]

\* map calls the callback, which runs to its first await: a null item and
\* an item without description throw, an item without imageUrl returns its
\* post with the placeholder, any other calls generateInstagramImage.
StartOf(item) ==
    IF DestructuringThrows(item) \/ SplitThrows(item) THEN Callback("threw", "none")
    ELSE IF item.image = "valid" THEN Callback("rendering", "placeholder")
    ELSE Callback("returned", "placeholder")

\* The calls of generateInstagramImage the callbacks make as map goes through
\* the items.
RECURSIVE RendersOf(_, _)
RendersOf(cbs, i) ==
    IF i > Len(cbs) THEN <<>>
    ELSE (IF cbs[i].state = "rendering" THEN <<Ev("render", i, NoResp)>> ELSE <<>>)
         \o RendersOf(cbs, i + 1)

\* Promise.all(selectedPosts.map(...)): the callbacks all start, each
\* running to its first await.  If one of them threw, Promise.all rejects
\* and the catch of the GET answers 500, while the callbacks of the other
\* items run on.
FilePassProcess(p) ==
    /\ npc[p] = "process"
    /\ LET sel == selectedPosts[p]
           cbs == [i \in 1..Len(sel) |-> StartOf(sel[i])]
       IN  /\ payloadPromises' = [payloadPromises EXCEPT ![p] = cbs]
           /\ nlog' = [nlog EXCEPT ![p] = @ \o RendersOf(cbs, 1)]
           /\ IF \E i \in 1..Len(cbs) : cbs[i].state = "threw"
              THEN EndPass(p, NewsResponse(500, FALSE, "internal", <<>>))
              ELSE /\ npc' = [npc EXCEPT ![p] = "all"]
                   /\ nresponse' = nresponse
    /\ UNCHANGED <<passStore, feedPosts, usedHeadlines, uniquePosts,
                   qualityPosts, selectedPosts, cursor, processedHeadlines,
                   validPostPayloads, existingHeadlines, returned, healthy>>
    /\ UNCHANGED <<backend, store, lastOp, prevOp, startStore>>
    /\ UNCHANGED <<postsPromises, capInput, capSent, sideVars>>
    /\ UNCHANGED quizVars
    /\ UNCHANGED pubVars
    /\ UNCHANGED routeVars

\* generateInstagramImage of item i settles: it returned the URL and the
\* callback sends the HEAD request to it, or it threw and the callback
\* returns its post with the placeholder.
FilePassRender(p, i) ==
    /\ i \in 1..Len(payloadPromises[p])
    /\ payloadPromises[p][i].state = "rendering"
    /\ \E made \in BOOLEAN :
          IF made
          THEN /\ nlog' = [nlog EXCEPT ![p] = Append(@, Ev("head", i, NoResp))]
               /\ payloadPromises' = [payloadPromises EXCEPT ![p][i] =
                                         Callback("heading", "placeholder")]
          ELSE /\ nlog' = nlog
               /\ payloadPromises' = [payloadPromises EXCEPT ![p][i] =
                                         Callback("returned", imageOfFile(FALSE, FALSE))]
    /\ UNCHANGED <<npc, passStore, feedPosts, usedHeadlines, uniquePosts,
                   qualityPosts, selectedPosts, cursor, processedHeadlines,
                   validPostPayloads, existingHeadlines, nresponse, returned,
                   healthy>>
    /\ UNCHANGED <<backend, store, lastOp, prevOp, startStore>>
    /\ UNCHANGED <<postsPromises, capInput, capSent, sideVars>>
    /\ UNCHANGED quizVars
    /\ UNCHANGED pubVars
    /\ UNCHANGED routeVars

\* The HEAD request of item i is answered, or fails: the callback returns
\* its post with the generated URL, or with the placeholder.
FilePassHead(p, i) ==
    /\ i \in 1..Len(payloadPromises[p])
    /\ payloadPromises[p][i].state = "heading"
    /\ \E ok \in BOOLEAN :
          payloadPromises' = [payloadPromises EXCEPT ![p][i] =
                                Callback("returned", imageOfFile(TRUE, ok))]
    /\ UNCHANGED <<npc, passStore, feedPosts, usedHeadlines, uniquePosts,
                   qualityPosts, selectedPosts, cursor, processedHeadlines,
                   validPostPayloads, existingHeadlines, nresponse, nlog,
                   returned, healthy>>
    /\ UNCHANGED <<backend, store, lastOp, prevOp, startStore>>
    /\ UNCHANGED <<postsPromises, capInput, capSent, sideVars>>
    /\ UNCHANGED quizVars
    /\ UNCHANGED pubVars
    /\ UNCHANGED routeVars

\* postPayloads = await Promise.all(...) returns when every callback has
\* returned its post: every item is a post, whatever became of its image.
FilePassAll(p) ==
    /\ npc[p] = "all"
    /\ \A i \in 1..Len(payloadPromises[p]) : payloadPromises[p][i].state = "returned"
    /\ LET sel == selectedPosts[p] IN
          validPostPayloads' = [validPostPayloads EXCEPT ![p] =
              [i \in 1..Len(sel) |->
                  Payload(sel[i].originalHeadline, sel[i].from,
                          payloadPromises[p][i].image)]]
    /\ payloadPromises' = [payloadPromises EXCEPT ![p] = <<>>]
    /\ npc' = [npc EXCEPT ![p] = "append"]
    /\ UNCHANGED <<passStore, feedPosts, usedHeadlines, uniquePosts,
                   qualityPosts, selectedPosts, cursor, processedHeadlines,
                   existingHeadlines, nresponse, nlog, returned, healthy>>
    /\ UNCHANGED <<backend, store, lastOp, prevOp, startStore>>
    /\ UNCHANGED <<postsPromises, capInput, capSent, sideVars>>
    /\ UNCHANGED quizVars
    /\ UNCHANGED pubVars
    /\ UNCHANGED routeVars

\* await appendUsedHeadlines(selectedPosts.map(post => post.originalHeadline)),
\* first half: the file is read again; a value that does not spread throws
\* into the catch of the GET.
FilePassAppendRead(p) ==
    /\ npc[p] = "append"
    /\ nlog' = [nlog EXCEPT ![p] = Append(@, Ev("get", 0, NoResp))]
    /\ \E readThrows \in StoreFaults :
          LET read == readUsedHeadlinesFile(store, readThrows) IN
          IF Spreads(read)
          THEN /\ existingHeadlines' = [existingHeadlines EXCEPT ![p] = read.items]
               /\ npc' = [npc EXCEPT ![p] = "write"]
               /\ UNCHANGED <<selectedPosts, validPostPayloads, nresponse>>
          ELSE /\ EndPass(p, NewsResponse(500, FALSE, "internal", <<>>))
               /\ selectedPosts' = [selectedPosts EXCEPT ![p] = <<>>]
               /\ validPostPayloads' = [validPostPayloads EXCEPT ![p] = <<>>]
               /\ existingHeadlines' = existingHeadlines
    /\ UNCHANGED <<passStore, feedPosts, usedHeadlines, uniquePosts,
                   qualityPosts, cursor, processedHeadlines, returned, healthy>>
    /\ UNCHANGED <<backend, store, lastOp, prevOp, startStore>>
    /\ UNCHANGED auxVars
    /\ UNCHANGED quizVars
    /\ UNCHANGED pubVars
    /\ UNCHANGED routeVars

\* appendUsedHeadlines, second half: what was read, merged with the new
\* headlines, is written over the file; a failing writeFile throws into the
\* catch of the GET.  Then the answer.
FilePassAppendWrite(p) ==
    /\ npc[p] = "write"
    /\ \E writeThrows \in StoreFaults :
          LET r == appendUsedHeadlinesFile(List(existingHeadlines[p]),
                                           OriginalHeadlines(selectedPosts[p]),
                                           FALSE, writeThrows)
          IN  /\ store' = IF r.wrote THEN r.store ELSE store
              /\ nlog' = [nlog EXCEPT ![p] =
                            Append(@, Ev("setex", IF r.wrote THEN 1 ELSE 0, NoResp))]
              /\ IF r.threw
                 THEN /\ EndPass(p, NewsResponse(500, FALSE, "internal", <<>>))
                      /\ returned' = returned
                 ELSE /\ EndPass(p, NewsResponse(200, TRUE, "", validPostPayloads[p]))
                      /\ returned' = returned \cup
                            { validPostPayloads[p][i].from :
                                i \in 1..Len(validPostPayloads[p]) }
    /\ selectedPosts' = [selectedPosts EXCEPT ![p] = <<>>]
    /\ validPostPayloads' = [validPostPayloads EXCEPT ![p] = <<>>]
    /\ existingHeadlines' = [existingHeadlines EXCEPT ![p] = <<>>]
    /\ UNCHANGED <<passStore, feedPosts, usedHeadlines, uniquePosts,
                   qualityPosts, cursor, processedHeadlines, healthy>>
    /\ UNCHANGED <<backend, lastOp, prevOp, startStore>>
    /\ UNCHANGED auxVars
    /\ UNCHANGED quizVars
    /\ UNCHANGED pubVars
    /\ UNCHANGED routeVars

NextFilePass ==
    \/ FilePassRead(1)
    \/ FilePassSelect(1)
    \/ FilePassProcess(1)
    \/ (\E i \in 1..ExactCount : FilePassRender(1, i) \/ FilePassHead(1, i))
    \/ FilePassAll(1)
    \/ FilePassAppendRead(1)
    \/ FilePassAppendWrite(1)

SpecFilePass == InitFilePass /\ [][NextFilePass]_vars

\* The fetch of the feeds, one promise per feed (lines 606-627): each feed
\* settles on its own, in any order, and Promise.all joins the results in
\* the order of the feeds.
MaxFeeds == 2
MaxItems == 1

Feeds == 1..MaxFeeds

Pending == [state |-> "pending", failed |-> FALSE, items |-> <<>>]

\* What the promise of a feed resolves to: the items of the feed, or [] from
\* the catch when parser.parseURL threw.
Settled(threw, items) ==
    [state |-> "settled", failed |-> threw,
     items |-> IF threw THEN <<>> ELSE items]

RECURSIVE Flat(_)
Flat(arrays) ==
    IF arrays = <<>> THEN <<>>
    ELSE Head(arrays) \o Flat(Tail(arrays))

\* Mutant: the join stops at the first feed that failed.
RECURSIVE JoinFeedsUntilFailure(_)
JoinFeedsUntilFailure(promises) ==
    IF promises = <<>> \/ Head(promises).failed THEN <<>>
    ELSE Head(promises).items \o JoinFeedsUntilFailure(Tail(promises))

\* (await Promise.all(postsPromises)).flat()
JoinFeeds(promises) ==
    Flat([f \in 1..Len(promises) |-> promises[f].items])

InitFeeds ==
    /\ backend = "redis"
    /\ store \in {Absent, List(<<"h1">>)}
    /\ lastOp = NoOp
    /\ prevOp = NoOp
    /\ IdleQuiz
    /\ IdleNews
    /\ IdlePublisher
    /\ IdleRoute

\* A request arrives: one promise per feed is created.
FeedsStart(p) ==
    /\ npc[p] = "idle"
    /\ npc' = [npc EXCEPT ![p] = "fetch"]
    /\ postsPromises' = [postsPromises EXCEPT ![p] = [f \in Feeds |-> Pending]]
    /\ UNCHANGED payloadPromises
    /\ passStore' = [passStore EXCEPT ![p] = store]
    /\ UNCHANGED <<feedPosts, usedHeadlines, uniquePosts, qualityPosts,
                   selectedPosts, cursor, processedHeadlines,
                   validPostPayloads, existingHeadlines, nresponse, nlog,
                   returned, healthy, capInput, capSent, sideVars>>
    /\ UNCHANGED <<backend, store, lastOp, prevOp, startStore>>
    /\ UNCHANGED quizVars
    /\ UNCHANGED pubVars
    /\ UNCHANGED routeVars

\* The promise of feed f settles.
FeedSettle(p, f) ==
    /\ npc[p] = "fetch"
    /\ postsPromises[p][f].state = "pending"
    /\ \E threw \in BOOLEAN, items \in SeqsUpTo(Candidates, MaxItems) :
          postsPromises' = [postsPromises EXCEPT ![p][f] = Settled(threw, items)]
    /\ nlog' = [nlog EXCEPT ![p] = Append(@, Ev("feed", f, NoResp))]
    /\ UNCHANGED payloadPromises
    /\ UNCHANGED <<npc, passStore, feedPosts, usedHeadlines, uniquePosts,
                   qualityPosts, selectedPosts, cursor, processedHeadlines,
                   validPostPayloads, existingHeadlines, nresponse,
                   returned, healthy, capInput, capSent, sideVars>>
    /\ UNCHANGED <<backend, store, lastOp, prevOp, startStore>>
    /\ UNCHANGED quizVars
    /\ UNCHANGED pubVars
    /\ UNCHANGED routeVars

\* await Promise.all(postsPromises) returns and the arrays are joined.
FeedsJoin(p) ==
    /\ npc[p] = "fetch"
    /\ \A f \in Feeds : postsPromises[p][f].state = "settled"
    /\ feedPosts' = [feedPosts EXCEPT ![p] = JoinFeeds(postsPromises[p])]
    /\ npc' = [npc EXCEPT ![p] = "read"]
    /\ UNCHANGED <<passStore, usedHeadlines, uniquePosts, qualityPosts,
                   selectedPosts, cursor, processedHeadlines,
                   validPostPayloads, existingHeadlines, nresponse, nlog,
                   returned, healthy, auxVars>>
    /\ UNCHANGED <<backend, store, lastOp, prevOp, startStore>>
    /\ UNCHANGED quizVars
    /\ UNCHANGED pubVars
    /\ UNCHANGED routeVars

NextFeeds ==
    \/ FeedsStart(1)
    \/ \E f \in Feeds : FeedSettle(1, f)
    \/ FeedsJoin(1)
    \/ NewsRead(1)

SpecFeeds == InitFeeds /\ [][NextFeeds]_vars

NewsPass(p) ==
    \/ NewsFetch(p)
    \/ NewsRead(p)
    \/ NewsSelect(p)
    \/ NewsProcess(p)
    \/ NewsAfterLoop(p)
    \/ NewsAppendRead(p)
    \/ NewsAppendWrite(p)

\* Passes that run one after the other: a single pass is under way.
NextNews == NewsPass(1)

SpecNews == InitNews /\ [][NextNews]_vars

\* Two requests at once: each pass has fetched a feed with one candidate and
\* stands before its read of the store; their steps interleave freely.
RaceFeeds == { <<Candidate(h, TRUE)>> : h \in Fingerprints }

InitRace ==
    /\ backend = "redis"
    /\ store \in {Absent, List(<<"h2">>)}
    /\ lastOp = NoOp
    /\ prevOp = NoOp
    /\ IdleQuiz
    /\ npc = [p \in Slots |-> "read"]
    /\ passStore = [p \in Slots |-> store]
    /\ feedPosts \in [Slots -> RaceFeeds]
    /\ usedHeadlines = [p \in Slots |-> <<>>]
    /\ uniquePosts = [p \in Slots |-> <<>>]
    /\ qualityPosts = [p \in Slots |-> <<>>]
    /\ selectedPosts = [p \in Slots |-> <<>>]
    /\ cursor = [p \in Slots |-> 0]
    /\ processedHeadlines = [p \in Slots |-> {}]
    /\ validPostPayloads = [p \in Slots |-> <<>>]
    /\ existingHeadlines = [p \in Slots |-> <<>>]
    /\ nresponse = [p \in Slots |-> NoNewsResponse]
    /\ nlog = [p \in Slots |-> <<>>]
    /\ returned = {}
    /\ healthy = TRUE
    /\ IdlePublisher
    /\ IdleRoute
    /\ IdleAux

\* A step of a request that has fetched its feeds.
RacePass(p) ==
    \/ NewsRead(p)
    \/ NewsSelect(p)
    \/ NewsProcess(p)
    \/ NewsAfterLoop(p)
    \/ NewsAppendRead(p)
    \/ NewsAppendWrite(p)

NextRace == \E p \in Slots : RacePass(p)

SpecRace == InitRace /\ [][NextRace]_vars

\* The same two requests one after the other: the second reads the store
\* only when the first has answered.
NextSerial ==
    \/ RacePass(1)
    \/ npc[1] = "done" /\ RacePass(2)

SpecSerial == InitRace /\ [][NextSerial]_vars

----------------------------------------------------------------------------
(* Captions.  A text is a sequence of characters: "b" is a character of the *)
(* body, " " the blank between two words, "." a character of the ellipsis   *)
(* and "t" a character of the trailing block (the "Read more" link and the  *)
(* hashtags).                                                               *)

XLimit == 280
XKeep == 277
InstagramLimit == 2200
ReservedSlack == 10
CharsPerWord == 6
HashtagsLen == 87
ReadMoreLen == 11

\* The longest description, in words, the longest word and the longest body
\* of a caption sent to X.
MaxWords == 352
MaxWordLen == 6
MaxBody == 200

\* The length of the link of an item that has one.
LinkLen == 30

Text(n, c) == [i \in 1..n |-> c]

Ellipsis == Text(3, ".")

\* words.join(' ') for k words of L characters each
JoinWords(k, L) ==
    [i \in 1..(IF k = 0 THEN 0 ELSE k * (L + 1) - 1) |->
        IF i % (L + 1) = 0 THEN " " ELSE "b"]

\* link ? `\n\nRead more: ${link}` : ''
linkSection(link) == IF link = 0 THEN <<>> ELSE Text(2 + ReadMoreLen + link, "t")

\* `\n\n${hashtags}`
hashtagSection == Text(2 + HashtagsLen, "t")

\* The trailing block of a caption made for an item with this link.
TrailingBlock(link) == linkSection(link) \o hashtagSection

\* presetCaption of fetch-news for a description of w words of L characters
presetCaption(w, L, link) ==
    LET reservedSpace == Len(linkSection(link)) + Len(hashtagSection) + ReservedSlack
        maxDescriptionLength == InstagramLimit - reservedSpace
        truncatedDescription ==
            JoinWords(Min(w, maxDescriptionLength \div CharsPerWord), L)
    IN  truncatedDescription \o Ellipsis \o linkSection(link) \o hashtagSection

\* The same caption with nothing taken from the description.
FullCaption(w, L, link) ==
    JoinWords(w, L) \o Ellipsis \o linkSection(link) \o hashtagSection

\* caption.length > 280 ? caption.substring(0, 277) + '...' : caption
truncatedCaption(caption) ==
    IF Len(caption) > XLimit THEN SubSeq(caption, 1, XKeep) \o Ellipsis
    ELSE caption

EndsWith(text, tail) ==
    /\ Len(text) >= Len(tail)
    /\ SubSeq(text, Len(text) - Len(tail) + 1, Len(text)) = tail

\* What is kept of a caption that was made: the platform's limit, whether
\* the text it was made of was over it, its length and whether it ends with
\* the trailing block.
Sent(limit, over, text, tail) ==
    [limit |-> limit, over |-> over, length |-> Len(text),
     keepsTail |-> EndsWith(text, tail)]

\* The description and link of a selected item.
InstagramInputs ==
    [platform : {"instagram"}, words : 1..MaxWords,
     wordLen : (MaxWordLen - 2)..MaxWordLen, link : {0, LinkLen}]

\* The caption of a request to /api/post-x: a body and the trailing block.
XInputs == [platform : {"x"}, body : 0..MaxBody, link : {0, LinkLen}]

XText(in) == Text(in.body, "b") \o TrailingBlock(in.link)

\* The tweet text made of the request's caption.
SentToX(in) ==
    Sent(XLimit, Len(XText(in)) > XLimit, truncatedCaption(XText(in)),
         TrailingBlock(in.link))

InitCaption ==
    /\ backend = "redis"
    /\ store = Absent
    /\ lastOp = NoOp
    /\ prevOp = NoOp
    /\ IdleQuiz
    /\ IdleNews
    /\ IdlePublisher
    /\ IdleRoute

\* The caption the news pass makes for a selected item (lines 680-690).
CaptionForInstagram ==
    /\ capInput.platform = "none"
    /\ \E in \in InstagramInputs :
          /\ capInput' = in
          /\ capSent' =
                Sent(InstagramLimit,
                     Len(FullCaption(in.words, in.wordLen, in.link)) > InstagramLimit,
                     presetCaption(in.words, in.wordLen, in.link),
                     TrailingBlock(in.link))
    /\ UNCHANGED <<passVars, promiseVars, sideVars>>
    /\ UNCHANGED <<backend, store, lastOp, prevOp, startStore>>
    /\ UNCHANGED quizVars
    /\ UNCHANGED pubVars
    /\ UNCHANGED routeVars

\* The tweet text post-x makes of a caption (lines 157-158).
CaptionForX ==
    /\ capInput.platform = "none"
    /\ \E in \in XInputs :
          /\ capInput' = in
          /\ capSent' = SentToX(in)
    /\ UNCHANGED <<passVars, promiseVars, sideVars>>
    /\ UNCHANGED <<backend, store, lastOp, prevOp, startStore>>
    /\ UNCHANGED quizVars
    /\ UNCHANGED pubVars
    /\ UNCHANGED routeVars

NextCaption == CaptionForInstagram \/ CaptionForX

----------------------------------------------------------------------------
(* The store over time: setex gives the key a time to live, in days here.   *)

\* The days the model lets go by.
MaxDay == 31

InitExpiry ==
    /\ backend \in {"redis", "quiz"}
    /\ store = Absent
    /\ lastOp = NoOp
    /\ prevOp = NoOp
    /\ IdleQuiz
    /\ IdleNews
    /\ IdlePublisher
    /\ IdleRoute

\* A day goes by; a key whose time to live is over is gone.
ExpiryTick ==
    /\ now < MaxDay
    /\ now' = now + 1
    /\ IF store.kind # "absent" /\ now + 1 >= expiresAt
       THEN /\ store' = Absent
            /\ storedAt' = [g \in Fingerprints |-> -1]
       ELSE UNCHANGED <<store, storedAt>>
    /\ UNCHANGED <<backend, lastOp, prevOp, startStore, expiresAt, pending>>
    /\ UNCHANGED quizVars
    /\ UNCHANGED <<passVars, promiseVars, capInput, capSent>>
    /\ UNCHANGED pubVars
    /\ UNCHANGED routeVars

\* Two appends of one fingerprint each, and the days that go by: the whole
\* merged list is written under the one key.
NextExpiry ==
    \/ \E c \in Slots :
          \/ StoreAppendRead(c, { <<f>> : f \in Fingerprints })
          \/ StoreAppendWrite(c)
    \/ ExpiryTick

SpecExpiry == InitExpiry /\ [][NextExpiry]_vars

----------------------------------------------------------------------------
(* POST of /api/post-x step by step: the request is read, the image is      *)
(* downloaded, the media is uploaded and the tweet is created.               *)

\* Mutant: the tweet is created although the upload gave no media id.
UploadGaveMediaIdUnchecked(up) == up.kind = "ok" /\ up.parses

\* mediaUploadResponse.ok and mediaData.media_id_string
UploadGaveMediaId(up) == up.kind = "ok" /\ up.parses /\ up.hasId

XBodies ==
    { Body("notjson", FALSE, <<>>, FALSE, FALSE) }
    \cup { Body("json", FALSE, <<>>, i, c) : i \in BOOLEAN, c \in BOOLEAN }

InitX ==
    /\ endpoint = "postx"
    /\ rpc = "start"
    /\ body \in XBodies
    /\ index = 0
    /\ results = <<>>
    /\ log = <<>>
    /\ xcreds \in BOOLEAN
    /\ newsData = NoJson
    /\ instagramResponse = NoHttp
    /\ xResponse = NoHttp
    /\ response = NoResponse
    /\ IdlePublisher
    /\ IdleStore
    /\ IdleQuiz
    /\ npc = [p \in Slots |-> "idle"]
    /\ passStore = [p \in Slots |-> Absent]
    /\ feedPosts = [p \in Slots |-> <<>>]
    /\ usedHeadlines = [p \in Slots |-> <<>>]
    /\ uniquePosts = [p \in Slots |-> <<>>]
    /\ qualityPosts = [p \in Slots |-> <<>>]
    /\ selectedPosts = [p \in Slots |-> <<>>]
    /\ cursor = [p \in Slots |-> 0]
    /\ processedHeadlines = [p \in Slots |-> {}]
    /\ validPostPayloads = [p \in Slots |-> <<>>]
    /\ existingHeadlines = [p \in Slots |-> <<>>]
    /\ nresponse = [p \in Slots |-> NoNewsResponse]
    /\ nlog = [p \in Slots |-> <<>>]
    /\ returned = {}
    /\ healthy = TRUE
    /\ postsPromises = [p \in Slots |-> <<>>]
    /\ payloadPromises = [p \in Slots |-> <<>>]
    /\ capInput \in XInputs
    /\ capSent = [limit |-> 0, over |-> FALSE, length |-> 0, keepsTail |-> TRUE]
    /\ now = 0
    /\ expiresAt = 0
    /\ storedAt = [f \in Fingerprints |-> -1]
    /\ pending = [c \in Slots |-> NoOp]

\* return NextResponse.json(...)
XAnswer(h) ==
    /\ xResponse' = h
    /\ rpc' = "done"

XLeaves ==
    /\ UNCHANGED <<endpoint, body, index, results, xcreds, newsData,
                   instagramResponse, response>>
    /\ UNCHANGED pubVars
    /\ UNCHANGED <<backend, store, lastOp, prevOp, startStore, quizVars,
                   passVars, promiseVars, capInput, sideVars>>

\* The body is parsed and the fields and credentials are looked at.
XReceive ==
    /\ endpoint = "postx"
    /\ rpc = "start"
    /\ IF body.kind # "json"
       THEN XAnswer(Http(500, Json(FALSE, FALSE, <<>>, "internal", FALSE)))
       ELSE IF ~body.image_url \/ ~body.caption
       THEN XAnswer(Http(400, Json(FALSE, FALSE, <<>>, "missing_fields", FALSE)))
       ELSE IF ~xcreds
       THEN XAnswer(Http(500, Json(FALSE, FALSE, <<>>, "no_credentials", FALSE)))
       ELSE /\ rpc' = "download"
            /\ xResponse' = xResponse
    /\ UNCHANGED <<log, capSent>>
    /\ XLeaves

\* const imageResponse = await fetch(image_url)
XDownload ==
    /\ endpoint = "postx"
    /\ rpc = "download"
    /\ \E img \in ImageResponses :
          /\ log' = Append(log, Ev("download", 1, img))
          /\ IF img.kind # "ok"
             THEN XAnswer(Http(500, Json(FALSE, FALSE, <<>>, "internal", FALSE)))
             ELSE /\ rpc' = "upload"
                  /\ xResponse' = xResponse
    /\ UNCHANGED capSent
    /\ XLeaves

\* Step 1: the media upload request and its media id.
XUpload ==
    /\ endpoint = "postx"
    /\ rpc = "upload"
    /\ \E up \in PlatformResponses :
          /\ log' = Append(log, Ev("upload", 1, up))
          /\ IF up.kind = "throws"
             THEN XAnswer(Http(500, Json(FALSE, FALSE, <<>>, "internal", FALSE)))
             ELSE IF up.kind # "ok"
             THEN XAnswer(Http(StatusOf(up),
                               Json(FALSE, FALSE, <<>>, "upload_failed", FALSE)))
             ELSE IF ~up.parses
             THEN XAnswer(Http(500, Json(FALSE, FALSE, <<>>, "internal", FALSE)))
             ELSE IF ~UploadGaveMediaId(up)
             THEN XAnswer(Http(500, Json(FALSE, FALSE, <<>>, "no_media_id", FALSE)))
             ELSE /\ rpc' = "tweet"
                  /\ xResponse' = xResponse
    /\ UNCHANGED capSent
    /\ XLeaves

\* Step 2: the caption is cut to size and the tweet request is made.
XTweet ==
    /\ endpoint = "postx"
    /\ rpc = "tweet"
    /\ capSent' = SentToX(capInput)
    /\ \E tw \in PlatformResponses :
          /\ log' = Append(log, Ev("tweet", 1, tw))
          /\ IF tw.kind = "throws"
             THEN XAnswer(Http(500, Json(FALSE, FALSE, <<>>, "internal", FALSE)))
             ELSE IF tw.kind # "ok"
             THEN XAnswer(Http(StatusOf(tw),
                               Json(FALSE, FALSE, <<>>, "tweet_failed", FALSE)))
             ELSE IF ~tw.parses
             THEN XAnswer(Http(500, Json(FALSE, FALSE, <<>>, "internal", FALSE)))
             ELSE IF ~tw.hasId
             THEN XAnswer(Http(500, Json(FALSE, FALSE, <<>>, "no_tweet_id", FALSE)))
             ELSE XAnswer(Http(200, Json(TRUE, FALSE, <<>>, "", TRUE)))
    /\ XLeaves

NextX == XReceive \/ XDownload \/ XUpload \/ XTweet

SpecX == InitX /\ [][NextX]_vars

----------------------------------------------------------------------------
(* The three boundary handlers, one request each: GET of fetch-and-post-all, *)
(* GET of fetch-news from its read of the store on, and POST of post-x.      *)

\* One request to fetch-news that has fetched its feeds.
InitNewsRequest ==
    /\ backend = "redis"
    /\ store \in StoredValues
    /\ lastOp = NoOp
    /\ prevOp = NoOp
    /\ IdleQuiz
    /\ npc = [p \in Slots |-> IF p = 1 THEN "read" ELSE "idle"]
    /\ passStore = [p \in Slots |-> IF p = 1 THEN store ELSE Absent]
    /\ \E ps \in FeedLists : feedPosts = [p \in Slots |-> IF p = 1 THEN ps ELSE <<>>]
    /\ usedHeadlines = [p \in Slots |-> <<>>]
    /\ uniquePosts = [p \in Slots |-> <<>>]
    /\ qualityPosts = [p \in Slots |-> <<>>]
    /\ selectedPosts = [p \in Slots |-> <<>>]
    /\ cursor = [p \in Slots |-> 0]
    /\ processedHeadlines = [p \in Slots |-> {}]
    /\ validPostPayloads = [p \in Slots |-> <<>>]
    /\ existingHeadlines = [p \in Slots |-> <<>>]
    /\ nresponse = [p \in Slots |-> NoNewsResponse]
    /\ nlog = [p \in Slots |-> <<>>]
    /\ returned = {}
    /\ healthy \in BOOLEAN
    /\ IdlePublisher
    /\ IdleRoute
    /\ IdleAux

InitEndpoints ==
    \/ InitRoutes /\ endpoint = "all"
    \/ InitNewsRequest
    \/ InitX

NextEndpoints ==
    \/ FetchNews
    \/ AllPostInstagram
    \/ AllPostX
    \/ NewsRead(1)
    \/ NewsSelect(1)
    \/ NewsProcess(1)
    \/ NewsAfterLoop(1)
    \/ NewsAppendRead(1)
    \/ NewsAppendWrite(1)
    \/ XReceive
    \/ XDownload
    \/ XUpload
    \/ XTweet

SpecEndpoints == InitEndpoints /\ [][NextEndpoints]_vars

SpecCaption == InitCaption /\ [][NextCaption]_vars

----------------------------------------------------------------------------
(* Properties of one publish call *)

PublishEvents == {i \in 1..Len(trace) : trace[i].e = "publish"}
CreateEvents == {i \in 1..Len(trace) : trace[i].e = "create"}

\* The error body of event i carries one of the two "processing" codes.
ProcessingAt(i) ==
    /\ trace[i].e = "publish"
    /\ trace[i].r.kind = "err"
    /\ trace[i].r.parses
    /\ trace[i].r.hasError
    /\ trace[i].r.code \in {9007, 100}

\* Event i is a publish attempt that failed with anything else.
OtherErrorAt(i) ==
    /\ trace[i].e = "publish"
    /\ trace[i].r.kind = "err"
    /\ ~ProcessingAt(i)

Retrying == variant \in {"photo", "reel"}

\* The sleeps taken after the first publish attempt, in order.
RECURSIVE SleepsFrom(_, _)
SleepsFrom(s, i) ==
    IF i > Len(s) THEN <<>>
    ELSE IF s[i].e = "sleep" THEN <<s[i].n>> \o SleepsFrom(s, i + 1)
    ELSE SleepsFrom(s, i + 1)

FirstPublish == IF PublishEvents = {} THEN Len(trace) + 1
                ELSE CHOOSE i \in PublishEvents : \A j \in PublishEvents : i <= j

WaitsBetweenAttempts == SleepsFrom(trace, FirstPublish)

\* C1: one publish call issues at most 5 media_publish requests, whatever
\* the platform answers.
C1_AtMostFivePublishRequests == Cardinality(PublishEvents) <= 5

C1_Witness ==
    /\ pc = "done"
    /\ Cardinality(PublishEvents) = 5
    /\ \A i \in PublishEvents : trace[i].n < 5 => ProcessingAt(i)

\* C2: every publish call reaches a terminal outcome (Published or Failed),
\* given that every request and every sleep returns.
C2_CallTerminates == <>(pc = "done" /\ outcome # NoOutcome)

C2_Witness ==
    /\ pc = "done"
    /\ outcome.success
    /\ Cardinality(PublishEvents) = 3

\* C3: a "processing" failure of attempt k < 5 is followed by a sleep of
\* min(5000 * k, 30000) ms and then by attempt k + 1; four such failures and
\* a success on attempt 5 end in success after waits of 5, 10, 15 and 20 s.
C3_BackoffThenRetry ==
    Retrying =>
        /\ \A i \in PublishEvents :
              (ProcessingAt(i) /\ trace[i].n < 5) =>
                /\ IF i = Len(trace) THEN pc = "backoff"
                   ELSE trace[i + 1] = EvSleep(IF 5000 * trace[i].n < 30000
                                               THEN 5000 * trace[i].n ELSE 30000)
                /\ IF i + 1 = Len(trace) THEN pc = "publish"
                   ELSE i + 1 < Len(trace) =>
                            /\ trace[i + 2].e = "publish"
                            /\ trace[i + 2].n = trace[i].n + 1
        /\ ( /\ pc = "done"
             /\ Cardinality(PublishEvents) = 5
             /\ trace[Len(trace)].e = "publish"
             /\ trace[Len(trace)].r.kind = "ok"
             /\ trace[Len(trace)].r.parses )
           => /\ outcome.success
              /\ WaitsBetweenAttempts = <<5000, 10000, 15000, 20000>>

C3_Witness ==
    /\ variant = "photo"
    /\ pc = "done"
    /\ outcome.success
    /\ Cardinality(PublishEvents) = 5
    /\ WaitsBetweenAttempts = <<5000, 10000, 15000, 20000>>

\* C4: a publish attempt that fails with any other error, or with an error
\* body that cannot be parsed, ends the call Failed at once: no sleep and no
\* further attempt follows it.
C4_OtherErrorIsTerminal ==
    \A i \in PublishEvents :
        OtherErrorAt(i) =>
            /\ i = Len(trace)
            /\ pc = "done"
            /\ ~outcome.success
            /\ outcome # NoOutcome

C4_Witness ==
    /\ Retrying
    /\ pc = "done"
    /\ Cardinality(PublishEvents) = 3
    /\ OtherErrorAt(Len(trace))
    /\ ~outcome.success

\* C5: five "processing" failures end the call Failed, with no sixth attempt
\* and no sleep after the fifth, and the error states 5 attempts.
C5_ExhaustionFails ==
    \A i \in PublishEvents :
        (trace[i].n = 5 /\ \A j \in PublishEvents : j <= i => ProcessingAt(j)) =>
            /\ i = Len(trace)
            /\ pc = "done"
            /\ outcome = Outcome(FALSE, "publish_failed", 5, FALSE)

C5_Witness ==
    /\ pc = "done"
    /\ Cardinality(PublishEvents) = 5
    /\ \A j \in PublishEvents : ProcessingAt(j)
    /\ outcome.stated = 5

\* C6: a container request answered with a non-2xx status, or without a
\* container id, ends the call in failure after exactly one create request
\* and no publish request; the create request is never repeated.
CreateRejectedAt(i) ==
    /\ trace[i].e = "create"
    /\ \/ trace[i].r.kind = "err"
       \/ trace[i].r.kind = "ok" /\ trace[i].r.parses /\ ~trace[i].r.hasId

C6_CreateFailureIsFatal ==
    /\ Cardinality(CreateEvents) <= 1
    /\ \A i \in CreateEvents :
          CreateRejectedAt(i) =>
            /\ pc = "done"
            /\ ~outcome.success
            /\ outcome # NoOutcome
            /\ Cardinality(CreateEvents) = 1
            /\ PublishEvents = {}
            /\ Len(trace) = 1

C6_Witness ==
    /\ pc = "done"
    /\ CreateEvents # {}
    /\ \A i \in CreateEvents : CreateRejectedAt(i) /\ trace[i].r.kind = "ok"
    /\ outcome.error = "no_media_id"

----------------------------------------------------------------------------
(* Properties of the route handlers *)

\* Every outcome the finished handler returned, platform by platform.
ReturnedOutcomes == response.results \o response.xResults

Answered == rpc = "done" /\ response.aggregate /\ ReturnedOutcomes # <<>>

EveryOutcomeSucceeded ==
    \A i \in 1..Len(ReturnedOutcomes) : ReturnedOutcomes[i].success

NoOutcomeSucceeded ==
    \A i \in 1..Len(ReturnedOutcomes) : ~ReturnedOutcomes[i].success

\* C7: the reported success is true exactly when every returned outcome has
\* success = true; outcomes [success, failure] are reported as success =
\* false with both outcomes in the answer.
C7_SuccessIffEveryOutcome ==
    Answered => (response.success <=> EveryOutcomeSucceeded)

\* C8: status 200 exactly when every outcome succeeded, 207 when some but
\* not all succeeded, and a 4xx/5xx status when none succeeded.
C8_StatusTellsTheThreeCasesApart ==
    Answered =>
        /\ response.status = 200 <=> EveryOutcomeSucceeded
        /\ (~EveryOutcomeSucceeded /\ ~NoOutcomeSucceeded) => response.status = 207
        /\ NoOutcomeSucceeded => response.status >= 400

\* One platform route refused for missing credentials, the other published.
OnePlatformUnconfigured ==
    /\ endpoint \in {"social", "all"}
    /\ rpc = "done"
    /\ \/ /\ IsOk(instagramResponse) /\ instagramResponse.json.success
          /\ ~xResponse.threw /\ xResponse.json.error = "no_credentials"
       \/ /\ IsOk(xResponse) /\ xResponse.json.success
          /\ ~instagramResponse.threw
          /\ instagramResponse.json.error = "no_credentials"

\* C9: with two platforms requested, one failing for missing credentials and
\* the other succeeding, the overall success is false and the answer holds
\* both the successful and the failed outcome.
C9_ConfigurationFailureIsReported ==
    OnePlatformUnconfigured =>
        /\ response.aggregate
        /\ ~response.success
        /\ \E i \in 1..Len(ReturnedOutcomes) : ReturnedOutcomes[i].success
        /\ \E i \in 1..Len(ReturnedOutcomes) :
              ~ReturnedOutcomes[i].success /\ ReturnedOutcomes[i].error # ""

\* The batch request passed the payload check.
BatchAccepted ==
    /\ endpoint \in {"batch", "reels"}
    /\ body.kind = "json"
    /\ body.success
    /\ Len(body.posts) > 0

\* C10: in a batch publish no failure, exception or missing payload of one
\* artifact keeps the others from being attempted: the answer holds exactly
\* one outcome per input artifact, in input order.  A null post makes the
\* loop throw, and the answer holds no outcome at all.
C10_OneOutcomePerArtifact ==
    BatchAccepted =>
        /\ rpc \in {"loop", "call", "delay"} =>
              /\ Len(results) = (IF rpc = "delay" THEN index ELSE index - 1)
              /\ \A i \in 1..Len(results) : results[i].n = i
        /\ rpc = "done" =>
              /\ response.aggregate
              /\ Len(response.results) = Len(body.posts)
              /\ \A i \in 1..Len(body.posts) :
                    /\ response.results[i].n = i
                    /\ body.posts[i] = "missing" =>
                          response.results[i].error = "missing_payload"
                    /\ body.posts[i] # "missing" =>
                          \E j \in 1..Len(log) : log[j] = Ev("call", i, NoResp)

\* The publisher calls of the route's log are made in input order.
CallsInInputOrder ==
    \A j, k \in 1..Len(log) :
        (j < k /\ log[j].e = "call" /\ log[k].e = "call") => log[j].n < log[k].n

\* The log does not end with a sleep.
NoTrailingDelay == log = <<>> \/ log[Len(log)].e # "sleep"

\* C11: the batch orchestrator handles the artifacts in input order, waits
\* the fixed 10 seconds between any two successive artifacts (one wait less
\* than there are artifacts) and takes no wait after the last artifact.
C11_DelayBetweenSuccessiveArtifacts ==
    (BatchAccepted /\ rpc = "done") =>
        /\ CallsInInputOrder
        /\ Count(log, "sleep") = Len(body.posts) - 1
        /\ \A j \in 1..Len(log) : log[j].e = "sleep" => log[j].n = InterPostDelayMs
        /\ NoTrailingDelay

----------------------------------------------------------------------------
(* Properties of the dedup store *)

\* The fingerprints a stored value holds: those of a list, and none of a
\* value that is no list.
Members(value) ==
    IF value.kind = "array" THEN {value.items[i] : i \in 1..Len(value.items)}
    ELSE {}

Elements(arr) == {arr[i] : i \in 1..Len(arr)}

\* The last operation was an append of the Redis generations that met no
\* fault of the backing store.
AppendedWithoutFault(o) ==
    /\ o.op = "append"
    /\ ~o.getThrows
    /\ ~o.setThrows

\* C14: after an append of S that met no backing-store error, the stored
\* set is the stored set the append came upon united with S: nothing that
\* was stored then is removed or replaced, whatever other callers do
\* meanwhile.
C14_AppendIsUnion ==
    (backend \in {"redis", "quiz"} /\ AppendedWithoutFault(lastOp)) =>
        /\ Members(store) = Members(lastOp.before) \cup Elements(lastOp.arg)
        /\ Elements(lastOp.arg) # {} => store.kind = "array"

C14_Witness ==
    /\ backend = "redis"
    /\ AppendedWithoutFault(lastOp)
    /\ lastOp.before = List(<<"h1">>)
    /\ lastOp.arg = <<"h2">>
    /\ store = List(<<"h1", "h2">>)

\* The append o came to its write with the store as it had read it: no other
\* write had come between.
Undisturbed(o) == o.found = o.before

\* C15: adding the same fingerprints twice, the second add after the first,
\* leaves the membership a single add leaves, whatever the store held
\* before, and a stored list never holds a fingerprint twice.
C15_AddAllIsIdempotent ==
    /\ (/\ backend = "redis"
        /\ AppendedWithoutFault(prevOp)
        /\ AppendedWithoutFault(lastOp)
        /\ Undisturbed(prevOp)
        /\ Undisturbed(lastOp)
        /\ lastOp.arg = prevOp.arg)
       => /\ Members(store) = Members(lastOp.before)
          /\ Members(store) = Members(prevOp.before) \cup Elements(prevOp.arg)
    /\ (backend = "redis" /\ store.kind = "array") => NoRepeats(store.items)

C15_Witness ==
    /\ backend = "redis"
    /\ AppendedWithoutFault(prevOp)
    /\ AppendedWithoutFault(lastOp)
    /\ prevOp.arg = <<"h2", "h2">>
    /\ lastOp.arg = <<"h2", "h2">>
    /\ prevOp.before = List(<<"h1">>)
    /\ store = List(<<"h1", "h2">>)

\* C16: a read of the store never throws; when the backing store is
\* unavailable or holds a value that is no list, the read returns the empty
\* list, so that no fingerprint is reported as used, and hands control back
\* to the pass.
C16_ReadFailsOpen ==
    (backend \in {"redis", "quiz"} /\ lastOp.op = "read") =>
        /\ ~lastOp.threw
        /\ lastOp.read.isArray
        /\ (lastOp.getThrows \/ lastOp.before.kind # "array") =>
              \A f \in Fingerprints : ~Includes(lastOp.read.items, f)
        /\ (~lastOp.getThrows /\ lastOp.before.kind = "array") =>
              lastOp.read.items = lastOp.before.items

C16_Witness ==
    /\ backend = "redis"
    /\ lastOp.op = "read"
    /\ ~lastOp.getThrows
    /\ lastOp.before = NonList
    /\ lastOp.read = ReadList(<<>>)
    /\ prevOp.op = "read"
    /\ prevOp.getThrows
    /\ prevOp.read = ReadList(<<>>)

\* C17: a backing-store error while the fingerprints are written is
\* swallowed by the store operation, which returns to the pass without an
\* exception.
C17_WriteErrorIsSwallowed ==
    (lastOp.op = "append" /\ lastOp.setThrows) =>
        /\ ~lastOp.threw
        /\ store = lastOp.found

\* The fingerprints written since the running pass began.
WrittenInPass == Members(store) \ Members(startStore)

\* C18: a fingerprint is written to the store only after the item it
\* identifies has produced a usable artifact: a quiz hash is in the store
\* only once the quiz image has been rendered and uploaded.
C18_FingerprintOnlyAfterArtifact ==
    \A f \in WrittenInPass : quizContent = f /\ uploadSuccess

\* C19: a pass writes the store at most once, and a pass that ends in an
\* error result leaves the store as it found it.
C19_ErrorLeavesStoreUntouched ==
    /\ Count(qlog, "setex") <= 1
    /\ (qpc = "done" /\ ~qresult.success) => store = startStore

----------------------------------------------------------------------------
(* Properties of the news pass *)

Occurrences(arr, x) == Cardinality({i \in 1..Len(arr) : arr[i] = x})

\* The pass has read the store and filtered the feed items, and has not yet
\* let them go.
Filtered(p) ==
    \/ npc[p] = "select"
    \/ npc[p] = "done" /\ nresponse[p].message = "no_new_content"

\* C12: for every candidate list and every store content read in the pass,
\* the dedup filter returns exactly the candidates whose headline is not in
\* what was read: no unused candidate is dropped, no used one is kept.
C12_FilterKeepsExactlyUnused ==
    \A p \in Slots : Filtered(p) =>
        \A c \in Candidates :
            Occurrences(uniquePosts[p], c) =
                IF c.headline \in Elements(usedHeadlines[p]) THEN 0
                ELSE Occurrences(feedPosts[p], c)

C12_Witness ==
    /\ npc[1] = "select"
    /\ feedPosts[1] = <<Candidate("h1", TRUE), Candidate("h2", TRUE)>>
    /\ usedHeadlines[1] = <<"h1">>
    /\ uniquePosts[1] = <<Candidate("h2", TRUE)>>

\* C13: if the dedup filter leaves no candidate, the pass ends early with a
\* success = false "no new content" answer, and in that pass the selection
\* step is never called, no artifact is produced and the store is not
\* written.
C13_NoNewContentEndsEarly ==
    \A p \in Slots :
        /\ (Filtered(p) /\ uniquePosts[p] = <<>>) =>
              /\ npc[p] = "done"
              /\ nresponse[p] = NewsResponse(404, FALSE, "no_new_content", <<>>)
        /\ (npc[p] = "done" /\ nresponse[p].message = "no_new_content") =>
              /\ uniquePosts[p] = <<>>
              /\ Count(nlog[p], "select") = 0
              /\ Count(nlog[p], "render") = 0
              /\ Count(nlog[p], "setex") = 0
              /\ validPostPayloads[p] = <<>>
              /\ store = passStore[p]

C13_Witness ==
    /\ npc[1] = "done"
    /\ nresponse[1].message = "no_new_content"
    /\ feedPosts[1] = <<Candidate("h1", TRUE), Candidate("h1", FALSE)>>
    /\ usedHeadlines[1] = <<"h2", "h1">>
    /\ returned = {"h1"}

\* C20: with passes one after the other and a healthy store, once a pass
\* has returned a post made from a candidate with headline h the store
\* contains h, and every later pass filters out the candidates with
\* headline h.
C20_ReturnedHeadlineIsNeverSelectedAgain ==
    healthy =>
        \A h \in returned :
            /\ h \in Members(store)
            /\ \A p \in Slots : Filtered(p) =>
                  \A i \in 1..Len(uniquePosts[p]) : uniquePosts[p][i].headline # h

----------------------------------------------------------------------------
(* Properties of the quiz pass's upload loop *)

\* The uploads and the waits of the pass, in order.
UploadPart == SelectSeq(qlog, LAMBDA ev : ev.e \in {"upload", "sleep"})

\* maxRetries uploads with a wait of 1000 * k ms before the k-th retry.
FullUploadTrace ==
    [i \in 1..(2 * maxRetries - 1) |->
        IF i % 2 = 1 THEN Ev("upload", (i + 1) \div 2, NoResp)
        ELSE EvSleep(UploadRetryStepMs * (i \div 2))]

\* C27: the upload step makes at most 3 upload attempts and stops at the
\* first success; there is no wait before the first attempt and a wait of
\* 1000 * k ms before the k-th retry; after 3 failed attempts the pass fails
\* with an error result.
C27_UploadRetriesAreBoundedAndLinear ==
    /\ Count(qlog, "upload") <= 3
    /\ Len(UploadPart) <= Len(FullUploadTrace)
    /\ UploadPart = SubSeq(FullUploadTrace, 1, Len(UploadPart))
    /\ UploadPart # <<>> => UploadPart[Len(UploadPart)].e = "upload"
    /\ uploadSuccess =>
          /\ qpc = "done"
          /\ qresult.success
          /\ qlog[Len(qlog)].e = "upload"
    /\ (qpc = "upload" \/ qresult.error = "upload_failed") =>
          Count(qlog, "upload") = retryCount
    /\ qresult.error = "upload_failed" <=>
          (qpc = "done" /\ ~uploadSuccess /\ Count(qlog, "upload") = 3)
    /\ qresult.error = "upload_failed" => ~qresult.success

C27_Witness ==
    /\ qpc = "done"
    /\ qresult.error = "upload_failed"
    /\ UploadPart = FullUploadTrace
    /\ Count(qlog, "sleep") = 2

----------------------------------------------------------------------------
(* Properties of the model calls *)

\* C23: one generation step calls the model at most 3 times in total: no
\* call of the model is the fourth attempt of its step.
C23_AtMostThreeModelCallsPerStep ==
    \A i \in 1..Len(qlog) : qlog[i].e = "generate" => qlog[i].n <= 3

----------------------------------------------------------------------------
(* Properties of the selection step *)

\* The different original headlines among the items the selection handed on.
SelectedTitles(p) ==
    { selectedPosts[p][i].originalHeadline : i \in 1..Len(selectedPosts[p]) }

\* C21: whenever the selection step succeeds, the selected items handed on
\* number at least 1 and at most maxCount = 3, even counting each title once.
C21_SelectionCountWithinBounds ==
    \A p \in Slots : npc[p] = "process" =>
        /\ Len(selectedPosts[p]) >= 1
        /\ Cardinality(SelectedTitles(p)) <= MaxCount

\* C22: every selected item handed on, and every post made of one, carries
\* as its original headline the headline of the candidate it was made from,
\* which was in the input sent to the model.
C22_SelectedItemsReferToInput ==
    \A p \in Slots :
        /\ \A i \in 1..Len(selectedPosts[p]) :
              selectedPosts[p][i].originalHeadline = selectedPosts[p][i].from
        /\ \A i \in 1..Len(validPostPayloads[p]) :
              validPostPayloads[p][i].originalHeadline = validPostPayloads[p][i].from
        /\ \A i \in 1..Len(nresponse[p].posts) :
              nresponse[p].posts[i].originalHeadline = nresponse[p].posts[i].from

\* The first item of the answer that carries this title.
FirstWithTitle(p, t) ==
    LET idx == {i \in 1..Len(selectedPosts[p]) :
                   selectedPosts[p][i].originalHeadline = t}
    IN  selectedPosts[p][CHOOSE i \in idx : \A j \in idx : i <= j]

DistinctTitles(ps) ==
    \A i, j \in 1..Len(ps) :
        ps[i].originalHeadline = ps[j].originalHeadline => i = j

\* C24: no two posts of one pass carry the same original headline; when
\* the model's answer repeats a title only the first item with that title
\* is processed: at most one image per title is made, and a post stems from
\* the first item of its title.  The loop of the Redis generation skips the
\* repeats; the file generation has no such test.
C24_OnePostPerTitle ==
    \A p \in Slots :
        /\ DistinctTitles(validPostPayloads[p])
        /\ DistinctTitles(nresponse[p].posts)
        /\ npc[p] = "process" =>
              /\ Count(nlog[p], "render") <= Cardinality(processedHeadlines[p])
              /\ Len(validPostPayloads[p]) <= Cardinality(processedHeadlines[p])
              /\ \A i \in 1..Len(validPostPayloads[p]) :
                    LET made == validPostPayloads[p][i]
                        first == FirstWithTitle(p, made.originalHeadline)
                    IN  /\ made.from = first.from
                        /\ first.image = "valid"

----------------------------------------------------------------------------
(* Properties of the image step *)

\* C25: making the images never fails the pass and never loses an item: a
\* pass whose selection succeeded does not end with "no valid images", and
\* every title the loop has processed has its post, with the placeholder
\* if need be.
C25_ImagesDegradeNeverDrop ==
    \A p \in Slots :
        /\ nresponse[p].message # "no_valid_images"
        /\ npc[p] = "process" =>
              Len(validPostPayloads[p]) = Cardinality(processedHeadlines[p])

\* C26: the image of every post a pass returns is the placeholder, or a
\* URL to which a HEAD request of that pass answered.
C26_ReturnedImagesWereChecked ==
    \A p \in Slots : \A i \in 1..Len(nresponse[p].posts) :
        \/ nresponse[p].posts[i].image = "placeholder"
        \/ \E j \in 1..Len(nlog[p]) : nlog[p][j].e = "head" /\ nlog[p][j].n = i

----------------------------------------------------------------------------
(* Properties of the fetch of the feeds *)

AllSettled(p) == \A f \in Feeds : postsPromises[p][f].state = "settled"

\* C29: the feeds are fetched side by side and joined before the dedup
\* read; a feed that failed gives no candidate, the candidates of every
\* other feed are all in the joined list, in the order of the feeds whatever
\* the order in which the fetches ended, and no failure of a feed ends the
\* pass.
C29_FeedsJoinedWithPartialSuccess ==
    \A p \in Slots :
        /\ npc[p] = "fetch" =>
              /\ nresponse[p] = NoNewsResponse
              /\ Count(nlog[p], "get") = 0
              /\ feedPosts[p] = <<>>
        /\ npc[p] = "read" =>
              /\ AllSettled(p)
              /\ nresponse[p] = NoNewsResponse
              /\ Count(nlog[p], "get") = 0
              /\ Count(nlog[p], "feed") = MaxFeeds
              /\ \A f \in Feeds :
                    postsPromises[p][f].failed => postsPromises[p][f].items = <<>>
              /\ feedPosts[p] = Flat([f \in Feeds |-> postsPromises[p][f].items])
        /\ (npc[p] \in {"select", "done"} /\ postsPromises[p] # <<>>) =>
              /\ Count(nlog[p], "get") = 1
              /\ nlog[p][Len(nlog[p])].e = "get"
              /\ nresponse[p].status # 500

\* The second feed ended first and the first feed failed: the pass goes on
\* to the read with the items of the second feed.
C29_Witness ==
    /\ npc[1] = "read"
    /\ nlog[1] = <<Ev("feed", 2, NoResp), Ev("feed", 1, NoResp)>>
    /\ postsPromises[1][1].failed
    /\ ~postsPromises[1][2].failed
    /\ feedPosts[1] = <<Candidate("h1", TRUE)>>

----------------------------------------------------------------------------
(* Properties of the captions *)

\* C28: a caption made of a text over the platform's limit (280 characters
\* on X, 2200 on the photo platform) is at most as long as the limit and
\* still ends with the whole trailing link and hashtag block.
C28_TruncationKeepsTrailingBlock ==
    (capInput.platform # "none" /\ capSent.over) =>
        /\ capSent.length <= capSent.limit
        /\ capSent.keepsTail

----------------------------------------------------------------------------
(* Properties of one publish on X *)

Requests(e) == {i \in 1..Len(log) : log[i].e = e}

\* The request of event i got a 2xx answer that carries the id asked for.
Succeeded(i) == log[i].r.kind = "ok" /\ log[i].r.parses /\ log[i].r.hasId

\* The answers the three requests of the publish got, with a stand-in for
\* a request that was not made.
AnswerTo(e) ==
    IF Requests(e) = {} THEN Resp("throws", FALSE, FALSE, 0, FALSE)
    ELSE log[CHOOSE i \in Requests(e) : TRUE].r

\* C30: one publish on X makes at most one media upload request and at
\* most one create-tweet request, the second only after the upload gave a
\* media id; a failure of either request ends the publish with a failure
\* answer, and no request is made again.
C30_XPublishIsTwoStepsWithoutRetry ==
    /\ Cardinality(Requests("upload")) <= 1
    /\ Cardinality(Requests("tweet")) <= 1
    /\ \A t \in Requests("tweet") :
          \E u \in Requests("upload") : u < t /\ Succeeded(u)
    /\ \A i \in Requests("upload") \cup Requests("tweet") :
          ~Succeeded(i) =>
              /\ rpc = "done"
              /\ i = Len(log)
              /\ ~xResponse.json.success
              /\ xResponse.status # 200
    /\ (rpc = "done" /\ xResponse.json.success) =>
          /\ Cardinality(Requests("upload")) = 1
          /\ Cardinality(Requests("tweet")) = 1
          /\ \A i \in Requests("upload") \cup Requests("tweet") : Succeeded(i)
    /\ rpc = "done" =>
          xResponse = PostXRoute(body, xcreds, AnswerTo("download"),
                                 AnswerTo("upload"), AnswerTo("tweet"))

C30_Witness ==
    /\ rpc = "done"
    /\ Len(log) = 3
    /\ log[2].e = "upload" /\ Succeeded(2)
    /\ log[3].e = "tweet" /\ log[3].r.kind = "err"
    /\ xResponse.json.error = "tweet_failed"

----------------------------------------------------------------------------
(* Properties of the store over time *)

\* C31: every fingerprint in the store is younger than the retention window
\* of its store (7 days for headlines, 30 for quiz hashes), counted from the
\* day it was stored, whatever was stored after it.
C31_FingerprintsExpireIndependently ==
    \A f \in Fingerprints :
        (store.kind = "array" /\ Includes(store.items, f)) =>
            now < storedAt[f] + Retention(backend)

----------------------------------------------------------------------------
(* Properties of two invocations at once *)

\* The pass answered 200 with its posts.
PassAnswered(p) == npc[p] = "done" /\ nresponse[p].success

\* Both callers have made their one append, and both appends are over.
BothAppended ==
    /\ \A c \in Slots : pending[c] = Done
    /\ prevOp.op = "append"
    /\ lastOp.op = "append"

\* The two appends came one after the other: each found at its write the
\* store it had read.
Serialized == Undisturbed(prevOp) /\ Undisturbed(lastOp)

\* The store holds what both appends were given.
StoreKeepsBoth ==
    (Elements(prevOp.arg) \cup Elements(lastOp.arg)) \subseteq Members(store)

\* C32 as stated: with serialized invocations the final store contains the
\* fingerprints of both.  It fails when the setex of the first append throws
\* (the error is swallowed), when its get throws (the read fails open and the
\* write replaces the list), and when the key has expired in between.
C32_SerializedAppendsKeepBoth ==
    (BothAppended /\ Serialized) => StoreKeepsBoth

\* C32, amended: the append is a read, a merge and a write that other
\* appends can come between.  With serialized invocations, a store that
\* answers every get and setex, and within the retention window of the
\* store, the final store contains the fingerprints of both; the witness
\* is the lost update that two interleaved appends of disjoint
\* fingerprints reach under the same conditions.
C32_SerializedAppendsKeepBothInWindow ==
    (/\ BothAppended
     /\ Serialized
     /\ AppendedWithoutFault(prevOp)
     /\ AppendedWithoutFault(lastOp)
     /\ now < Retention(backend))
    => StoreKeepsBoth

C32_Witness ==
    /\ BothAppended
    /\ AppendedWithoutFault(prevOp)
    /\ AppendedWithoutFault(lastOp)
    /\ now < Retention(backend)
    /\ ~Undisturbed(lastOp)
    /\ Elements(prevOp.arg) \cap Elements(lastOp.arg) = {}
    /\ Elements(prevOp.arg) \cap Members(store) = {}
    /\ Elements(lastOp.arg) \subseteq Members(store)

\* The feed headlines the pass returned a post of.
ReturnedBy(p) == { nresponse[p].posts[i].from : i \in 1..Len(nresponse[p].posts) }

\* Both passes returned a post made from the same feed headline.
DoubleSelection ==
    /\ \A p \in Slots : PassAnswered(p)
    /\ ReturnedBy(1) \cap ReturnedBy(2) # {}

\* C33: two passes that both read the store before either has written can
\* both return a post of the same candidate headline; with passes that run
\* one after the other (and a store that answers every call) no two passes
\* return a post of the same candidate headline.
C33_SerializedPassesNeverSelectTwice == ~DoubleSelection

----------------------------------------------------------------------------
(* Properties of the 'fetch and post to all platforms' route *)

\* The platform route refused the body before any publish request.
RefusedAsIncomplete(h) == ~h.threw /\ h.json.error = "missing_fields"

\* C38: once fetch-and-post-all has fetched at least one post, neither
\* platform route it calls refuses the body it is sent as "Missing required
\* fields", and the answer lists one outcome per fetched post and platform.
C38_PlatformRoutesAcceptTheNewsPayload ==
    (endpoint = "all" /\ rpc = "done" /\ response.aggregate) =>
        /\ ~RefusedAsIncomplete(instagramResponse)
        /\ ~RefusedAsIncomplete(xResponse)
        /\ Len(response.results) = Len(newsData.results)
        /\ Len(response.xResults) = Len(newsData.results)

----------------------------------------------------------------------------
(* Properties of what a publish call returns *)

\* C36: a returned outcome with success = true carries the id the platform
\* gave for the post, and one with success = false carries an error text.
C36_OutcomeIsWellFormed ==
    pc = "done" =>
        /\ outcome.success => outcome.hasId
        /\ ~outcome.success => outcome.error \notin {"", "none"}

\* C37: when the retrying publish loop ends in failure, the number of
\* attempts the error states is the number of publish requests the call
\* made.
C37_StatedAttemptsAreTheRequestsMade ==
    (pc = "done" /\ variant # "simple" /\ outcome.error = "publish_failed") =>
        outcome.stated = Count(trace, "publish")

----------------------------------------------------------------------------
(* Properties of the quiz pass's uniqueness loop *)

\* C35: a quiz pass returns success only with a quiz whose hash was not in
\* the list of used quizzes the pass read, and a pass whose three generated
\* quizzes were all used ends with the error 'Failed to generate unique quiz
\* content' and renders nothing.
C35_OnlyAnUnusedQuizIsReturned ==
    /\ (qpc = "done" /\ qresult.success) => ~Includes(usedQuizzes, qresult.hash)
    /\ (~isUnique /\ ~UniqueLoopContinues(isUnique, quizAttempts)) =>
          /\ qpc = "done"
          /\ qresult.error = "not_unique"
          /\ Count(qlog, "render") = 0

----------------------------------------------------------------------------
(* Properties of the answers of the boundary handlers *)

\* The texts that stand for "no error or message string".
NoText == {"", "none"}

\* The handler has a step to take.
HandlerRuns ==
    \/ endpoint = "all" /\ rpc # "done"
    \/ npc[1] \notin {"idle", "done"}
    \/ endpoint = "postx" /\ rpc # "done"

\* fetch-and-post-all answered: { success, message, newsData, results } or
\* { success: false, error }.
AllEnvelope ==
    /\ response.status # 0
    /\ response.success => response.aggregate
    /\ ~response.success => (response.aggregate \/ response.error \notin NoText)

\* fetch-news answered: { success: true, posts } or { success: false,
\* message | error }.
NewsEnvelope ==
    /\ nresponse[1].status # 0
    /\ nresponse[1].success => Len(nresponse[1].posts) > 0
    /\ ~nresponse[1].success =>
          (nresponse[1].message \notin NoText /\ nresponse[1].posts = <<>>)

\* post-x answered: { success: true, message, tweet_id } or { success:
\* false, error }.
XEnvelope ==
    /\ ~xResponse.threw
    /\ xResponse.status # 0
    /\ xResponse.json.success => xResponse.json.hasId
    /\ ~xResponse.json.success => xResponse.json.error \notin NoText

\* C34: whatever its external calls answer or throw, each of the three
\* handlers goes on until it answers, and its answer is a JSON body with a
\* boolean success and a payload or an error or message string.
C34_EveryAnswerIsAnEnvelope ==
    /\ HandlerRuns => ENABLED NextEndpoints
    /\ (endpoint = "all" /\ rpc = "done") => AllEnvelope
    /\ npc[1] = "done" => NewsEnvelope
    /\ (endpoint = "postx" /\ rpc = "done") => XEnvelope

C34_Witness ==
    /\ endpoint = "all"
    /\ rpc = "done"
    /\ xResponse.threw
    /\ response.status = 500
    /\ ~response.success
    /\ response.error = "internal"

====
